---- MODULE Spec2Model ----
(***************************************************************************)
(* Model of autosave: the Git save routine (src/src/git.rs) and the        *)
(* per-repository debounce worker (src/src/watcher.rs).                    *)
(***************************************************************************)
EXTENDS Integers, Sequences, FiniteSets, TLC

(***************************************************************************)
(* Bounds of the model.                                                    *)
(***************************************************************************)
\* save is called at most this many times in a row
MaxSaves == 2
\* a file holds one of the contents 1..MaxContent (0: the file is absent)
MaxContent == 2
\* the clock of a debounce worker's run stops at MaxTime seconds
MaxTime == 32
\* the clock of a daemon's run stops at MaxDaemonTime seconds
MaxDaemonTime == 3
\* filesystem events arrive in the first MaxEventTime seconds of a run
MaxEventTime == 2
\* at most MaxEvents filesystem events arrive in a run
MaxEvents == 2
\* a save takes at most MaxBusy seconds
MaxBusy == 1
\* at most MaxWorkers watchers are constructed in a daemon's run
MaxWorkers == 2
\* an add request carries a config with a delay of 1..MaxAddDelay seconds
MaxAddDelay == 1

(***************************************************************************)
(* Git objects.                                                            *)
(***************************************************************************)
\* one ordinary path and one path matched by .gitignore
Paths == {"f", "g"}
Ignored == {"g"}
Absent == 0
Contents == 0..MaxContent
\* the ignored file is a build artifact: there or not
ContentOf(p) == IF p \in Ignored THEN 0..1 ELSE Contents
Trees == {t \in [Paths -> Contents] : \A p \in Paths : t[p] \in ContentOf(p)}
EmptyTree == [p \in Paths |-> Absent]
\* the user's branch and the tracking branch of the config
Branches == {"main", "auto"}
TrackingBranch == "auto"

\* ReferenceName::Branch(String) | ReferenceName::Commit(Oid)
Branch(name) == [kind |-> "Branch", name |-> name, oid |-> 0]
Commit(oid) == [kind |-> "Commit", name |-> "", oid |-> oid]

\* the fallible libgit2 call of save that fails in this run ("none": no call fails)
SaveFailures ==
    {"none", "is_saved", "backup_index", "create_branch", "reference_symbolic", "reset", "auto_merge",
     "merge_commit", "cleanup_state", "add_all", "commit", "restore_index"}
\* the fallible call of the restoring change_head_ref that fails
RestoreFailures == {"none", "reference", "reset"}

VARIABLES
    repo,     \* the repository: commits, refs, HEAD, index, workdir, state
    pre,      \* the repository as it was when the last save was called
    ret,      \* what the last save returned
    now,      \* the time, in seconds
    entry,    \* the watch list's entry of the path: its worker, 0 for none
    workers,  \* the debounce worker threads spawned for the path
    events,   \* the times of the filesystem events of the path so far
    log,      \* the save invocations of the workers so far
    file,     \* the content of watch.json
    resp,     \* the last response of the API
    api,      \* the API handlers in progress
    hook,     \* the preload library in a process: configuration, guards, calls
    server,   \* the daemon's main function: where it is, who awaits NOTIFY
    run       \* the client process of the run subcommand and its child

gitvars == <<repo, pre, ret>>
apivars == <<file, resp, api>>
hookvars == <<hook>>
servervars == <<server>>
runvars == <<run>>
watchvars ==
    <<now, entry, workers, events, log, file, resp, api, hook, server, run>>
vars == <<repo, pre, ret, now, entry, workers, events, log, file, resp, api, hook,
          server, run>>

Ok(r) == [ok |-> TRUE, repo |-> r, oid |-> 0]
Err(r) == [ok |-> FALSE, repo |-> r, oid |-> 0]

\* the commit HEAD resolves to, 0 when HEAD is unborn
HeadOid(r) ==
    IF r.HEAD.kind = "Branch" THEN r.refs[r.HEAD.name] ELSE r.HEAD.oid

\* GitRepo::head: fails on an unborn HEAD
head(r) == [ok |-> HeadOid(r) # 0, oid |-> HeadOid(r)]

TreeOf(r, oid) == r.commits[oid].tree

\* GitRepo::get_branch: the branch's commit, 0 for None
get_branch(r, name) == r.refs[name]

\* get_or_create_branch that moves an existing branch to HEAD's commit
get_or_create_branch_reset(r, name, fail) ==
    IF ~head(r).ok \/ fail = "create_branch" THEN Err(r)
    ELSE Ok([r EXCEPT !.refs[name] = head(r).oid])
\* GitRepo::get_or_create_branch
get_or_create_branch(r, name, fail) ==
    IF get_branch(r, name) # 0 THEN Ok(r)
    ELSE IF ~head(r).ok \/ fail = "create_branch" THEN Err(r)
    ELSE Ok([r EXCEPT !.refs[name] = head(r).oid])

\* GitRepo::change_head_ref: write HEAD, then a mixed reset to its commit
change_head_ref(r, target, fail) ==
    IF fail \in {"reference", "reference_symbolic"} THEN Err(r)
    ELSE LET r1 == [r EXCEPT !.HEAD = target]
         IN  IF fail = "reset" \/ HeadOid(r1) = 0 THEN Err(r1)
             ELSE Ok([r1 EXCEPT !.index = TreeOf(r1, HeadOid(r1))])

\* change_head_branch that leaves HEAD where it is
change_head_branch_stay(r, name, fail) ==
    LET b == get_or_create_branch(r, name, fail)
    IN  IF ~b.ok THEN Err(b.repo) ELSE Ok(b.repo)
\* GitRepo::change_head_branch
change_head_branch(r, name, fail) ==
    LET b == get_or_create_branch(r, name, fail)
    IN  IF ~b.ok THEN Err(b.repo)
        ELSE change_head_ref(b.repo, Branch(name), fail)

\* add_cwd_all as git add -u would do it: files not yet tracked are left out
add_cwd_all_update(r, fail) ==
    IF fail = "add_all" THEN Err(r)
    ELSE Ok([r EXCEPT !.index =
                [p \in Paths |->
                    IF r.index[p] = Absent THEN Absent ELSE r.workdir[p]]])

\* GitRepo::add_cwd_all: index.add_all(["."], DEFAULT) and index.write
add_cwd_all(r, fail) ==
    IF fail = "add_all" THEN Err(r)
    ELSE Ok([r EXCEPT !.index =
                [p \in Paths |->
                    IF r.workdir[p] = Absent THEN Absent
                    ELSE IF p \in Ignored /\ r.index[p] = Absent THEN Absent
                    ELSE r.workdir[p]]])

\* get_current_head_name that records the commit HEAD resolves to, whether
\* HEAD is detached or not
get_current_head_name_peeled(r) == Commit(head(r).oid)

\* GitRepo::get_current_head_name
get_current_head_name(r) ==
    IF r.HEAD.kind = "Commit" THEN Commit(head(r).oid) ELSE Branch(r.HEAD.name)

\* GitRepo::get_ref_workdir_diff and stats.files_changed() != 0: a tree against
\* the working tree, untracked files included, ignored untracked files not
WorkdirDiffers(r, tree) ==
    \E p \in Paths :
        /\ ~(p \in Ignored /\ tree[p] = Absent)
        /\ tree[p] # r.workdir[p]

\* is_saved that looks at HEAD only
is_saved_head(r, branch) == ~WorkdirDiffers(r, TreeOf(r, head(r).oid))

\* GitRepo::is_saved (HEAD is born)
is_saved(r, branch) ==
    IF ~WorkdirDiffers(r, TreeOf(r, head(r).oid)) THEN TRUE
    ELSE IF get_branch(r, branch) # 0
         THEN ~WorkdirDiffers(r, TreeOf(r, get_branch(r, branch)))
         ELSE FALSE

\* the ancestors of a commit, itself included
RECURSIVE Ancestors(_, _)
Ancestors(commits, c) ==
    {c} \cup UNION { Ancestors(commits, commits[c].parents[i]) :
                        i \in DOMAIN commits[c].parents }

\* Repository::merge_base: a best common ancestor, 0 when there is none
merge_base(commits, x, y) ==
    LET common == Ancestors(commits, x) \cap Ancestors(commits, y)
        best == {c \in common :
                    \A d \in common \ {c} : c \notin Ancestors(commits, d)}
    IN  IF common = {} THEN 0 ELSE CHOOSE c \in best : TRUE

\* Repository::merge_trees: three-way merge per path; 0..MaxContent, or -1 for
\* a conflict
merge_trees(ancestor, ours, theirs) ==
    [p \in Paths |->
        IF ours[p] = theirs[p] THEN ours[p]
        ELSE IF ours[p] = ancestor[p] THEN theirs[p]
        ELSE IF theirs[p] = ancestor[p] THEN ours[p]
        ELSE -1]

\* GitRepo::commit: write the index as a tree, commit it and move HEAD's
\* target (the branch HEAD names, or HEAD itself when detached) to the commit
commit(r, parents, message, fail) ==
    IF fail \/ (\E p \in Paths : r.index[p] = -1) THEN Err(r)
    ELSE LET oid == Len(r.commits) + 1
             r1 == [r EXCEPT !.commits = Append(@,
                        [tree |-> r.index, parents |-> parents,
                         message |-> message])]
         IN  [ok |-> TRUE, oid |-> oid,
              repo |-> IF r.HEAD.kind = "Branch"
                       THEN [r1 EXCEPT !.refs[r.HEAD.name] = oid]
                       ELSE [r1 EXCEPT !.HEAD = Commit(oid)]]

\* GitRepo::commit_on_current_head
commit_on_current_head(r, message, fail) ==
    IF ~head(r).ok THEN Err(r)
    ELSE commit(r, <<head(r).oid>>, message, fail = "commit")

\* merge without the return of None when a tip is the merge base
merge_always(r, our, their, message, fail) ==
    LET oc == our
        tc == their
        base_oid == merge_base(r.commits, oc, tc)
    IN  IF base_oid = 0 THEN Err(r)
        ELSE LET index == merge_trees(TreeOf(r, base_oid), TreeOf(r, oc),
                                      TreeOf(r, tc))
                 c == commit([r EXCEPT !.index = index], <<tc, oc>>, message,
                             fail = "merge_commit")
                 after == [c.repo EXCEPT !.index = r.index]
             IN  IF ~c.ok \/ fail = "cleanup_state" THEN Err(after)
                 ELSE [ok |-> TRUE, oid |-> c.oid, repo |-> after]
\* GitRepo::merge: our is the prior branch, their is HEAD (the tracking branch)
merge(r, our, their, message, fail) ==
    LET oc == our
        tc == their
        base_oid == merge_base(r.commits, oc, tc)
    IN  IF base_oid = 0 THEN Err(r)
        ELSE IF oc = base_oid \/ tc = base_oid THEN Ok(r)
        ELSE LET index == merge_trees(TreeOf(r, base_oid), TreeOf(r, oc),
                                      TreeOf(r, tc))
                 c == commit([r EXCEPT !.index = index], <<tc, oc>>, message,
                             fail = "merge_commit")
                 \* set_index(&mut before_index)
                 after == [c.repo EXCEPT !.index = r.index]
             IN  IF ~c.ok \/ fail = "cleanup_state" THEN Err(after)
                 ELSE [ok |-> TRUE, oid |-> c.oid, repo |-> after]

\* GitRepo::auto_merge: merge the prior branch into HEAD if their trees agree
auto_merge(r, from, message, fail) ==
    IF from.kind = "Branch"
    THEN IF fail = "auto_merge" \/ r.refs[from.name] = 0 \/ ~head(r).ok
         THEN Err(r)
         ELSE IF TreeOf(r, head(r).oid) = TreeOf(r, r.refs[from.name])
              THEN merge(r, r.refs[from.name], head(r).oid, message, fail)
              ELSE Ok(r)
    ELSE Ok(r)

\* GitRepo::backup_index: the entries of the index (path, content)
backup_index(r) == {<<p, r.index[p]>> : p \in {q \in Paths : r.index[q] # Absent}}

\* restore_index that writes the index as the reset left it
restore_index_skip(r, entries, fail) ==
    IF fail = "restore_index" THEN Err(r) ELSE Ok(r)

\* GitRepo::restore_index: index.add of every entry, then index.write
restore_index(r, entries, fail) ==
    IF fail = "restore_index" THEN Err(r)
    ELSE Ok([r EXCEPT !.index =
                [p \in Paths |->
                    IF \E e \in entries : e[1] = p
                    THEN (CHOOSE e \in entries : e[1] = p)[2]
                    ELSE r.index[p]]])

\* what save returns: the repository it leaves, Ok or Err, the step of
\* spec section 4.1 it returned from, and how the restoration of HEAD went
Return(r, result, step, restore) ==
    [repo |-> r, result |-> result, step |-> step, restore |-> restore]

\* save without the check of the repository state
save_in_any_state(r, branch_name, fail, rfail) ==
    IF ~head(r).ok \/ fail = "is_saved" THEN Return(r, "err", 2, "none")
    ELSE IF is_saved(r, branch_name) THEN Return(r, "ok", 2, "none")
    ELSE IF fail = "backup_index"
         THEN Return(r, "err", 3, "none")
    ELSE
    LET current_head == get_current_head_name(r)
        current_index_entries == backup_index(r)
        \* restore current HEAD if error occurred
        Recover(r1, step) ==
            LET h == change_head_ref(r1, current_head, rfail)
            IN  Return(h.repo, "err", step, IF h.ok THEN "ok" ELSE "failed")
        s4 == change_head_branch(r, branch_name, fail)
    IN  IF ~s4.ok THEN Return(s4.repo, "err", 4, "none")
        ELSE
        LET s5 == auto_merge(s4.repo, current_head, "merge_message", fail)
        IN  IF ~s5.ok THEN Recover(s5.repo, 5)
            ELSE
            LET s6 == add_cwd_all(s5.repo, fail)
            IN  IF ~s6.ok THEN Recover(s6.repo, 6)
                ELSE
                LET s7 == commit_on_current_head(s6.repo, "commit_message", fail)
                IN  IF ~s7.ok THEN Recover(s7.repo, 7)
                    ELSE
                    LET s8 == change_head_ref(s7.repo, current_head, rfail)
                    IN  IF ~s8.ok THEN Return(s8.repo, "err", 8, "failed")
                        ELSE
                        LET s9 == restore_index(s8.repo, current_index_entries,
                                                fail)
                        IN  IF ~s9.ok THEN Return(s9.repo, "err", 9, "ok")
                            ELSE Return(s9.repo, "ok", 9, "ok")
\* GitRepo::save
save(r, branch_name, fail, rfail) ==
    IF r.state # "Clean" THEN Return(r, "ok", 1, "none")
    ELSE IF ~head(r).ok \/ fail = "is_saved" THEN Return(r, "err", 2, "none")
    ELSE IF is_saved(r, branch_name) THEN Return(r, "ok", 2, "none")
    ELSE IF fail = "backup_index"
         THEN Return(r, "err", 3, "none")
    ELSE
    LET current_head == get_current_head_name(r)
        current_index_entries == backup_index(r)
        \* restore current HEAD if error occurred
        Recover(r1, step) ==
            LET h == change_head_ref(r1, current_head, rfail)
            IN  Return(h.repo, "err", step, IF h.ok THEN "ok" ELSE "failed")
        s4 == change_head_branch(r, branch_name, fail)
    IN  IF ~s4.ok THEN Return(s4.repo, "err", 4, "none")
        ELSE
        LET s5 == auto_merge(s4.repo, current_head, "merge_message", fail)
        IN  IF ~s5.ok THEN Recover(s5.repo, 5)
            ELSE
            LET s6 == add_cwd_all(s5.repo, fail)
            IN  IF ~s6.ok THEN Recover(s6.repo, 6)
                ELSE
                LET s7 == commit_on_current_head(s6.repo, "commit_message", fail)
                IN  IF ~s7.ok THEN Recover(s7.repo, 7)
                    ELSE
                    LET s8 == change_head_ref(s7.repo, current_head, rfail)
                    IN  IF ~s8.ok THEN Return(s8.repo, "err", 8, "failed")
                        ELSE
                        LET s9 == restore_index(s8.repo, current_index_entries,
                                                fail)
                        IN  IF ~s9.ok THEN Return(s9.repo, "err", 9, "ok")
                            ELSE Return(s9.repo, "ok", 9, "ok")

(***************************************************************************)
(* The repository and its user.                                            *)
(***************************************************************************)
NoReturn ==
    [result |-> "none", step |-> 0, restore |-> "none", after |-> "none",
     calls |-> 0, made |-> 0, before |-> 0]

CommitObject(tree, parents, message) ==
    [tree |-> tree, parents |-> parents, message |-> message]

\* The histories a save can find: what earlier user commits and earlier
\* saves leave behind. tm is the tree of main's tip, tt of the tracking
\* branch's tip.
Histories ==
    {"unborn", "root", "saved", "behind", "diverged", "unrelated"}

HistoryCommits(h, tm, tt) ==
    CASE h = "unborn" -> <<>>
      [] h = "root" -> <<CommitObject(tm, <<>>, "user")>>
      [] h = "saved" -> <<CommitObject(tm, <<>>, "user"),
                          CommitObject(tt, <<1>>, "commit_message")>>
      [] h = "behind" -> <<CommitObject(tt, <<>>, "user"),
                           CommitObject(tm, <<1>>, "user")>>
      [] h = "diverged" -> <<CommitObject(EmptyTree, <<>>, "user"),
                             CommitObject(tt, <<1>>, "commit_message"),
                             CommitObject(tm, <<1>>, "user")>>
      [] h = "unrelated" -> <<CommitObject(tm, <<>>, "user"),
                              CommitObject(tt, <<>>, "user")>>

HistoryRefs(h) ==
    CASE h = "unborn" -> [b \in Branches |-> 0]
      [] h = "root" -> [b \in Branches |-> IF b = "main" THEN 1 ELSE 0]
      [] h = "saved" -> [b \in Branches |-> IF b = "main" THEN 1 ELSE 2]
      [] h = "behind" -> [b \in Branches |-> IF b = "main" THEN 2 ELSE 1]
      [] h = "diverged" -> [b \in Branches |-> IF b = "main" THEN 3 ELSE 2]
      [] h = "unrelated" -> [b \in Branches |-> IF b = "main" THEN 1 ELSE 2]

\* WatchListFile { paths }: the configs of every path of the watch list
\* (entry e of the one path, with the workers ws)
WatchListFile(e, ws) == IF e = 0 THEN <<>> ELSE <<ws[e].confs>>

\* serde_json::to_string(&WatchListFile): the text, token by token
to_string(data) ==
    <<<<"{", "", 0>>>>
    \o (IF data = <<>> THEN <<>>
        ELSE <<<<"path", "", 0>>>>
             \o [i \in 1..Len(data[1]) |->
                    <<"config", data[1][i].branch, data[1][i].delay>>])
    \o <<<<"}", "", 0>>>>

\* the run subcommand is not in use
NoRun == [pc |-> "none"]

\* run_server is in axum::serve, and no task awaits NOTIFY.notified()
Serving ==
    [pc |-> "serve", waiters |-> 0, woken |-> 0,
     readable |-> TRUE, text |-> to_string(<<>>), constructed |-> TRUE]

\* Notify::notify_waiters: the tasks that are waiting are woken; no permit
\* is stored for a task that waits later
notify_waiters(sv) == [sv EXCEPT !.woken = @ + sv.waiters, !.waiters = 0]

\* the preload library is not loaded
NoHook == [loaded |-> FALSE]

\* no request has been answered
NoResponse ==
    [req |-> "none", result |-> "none", wrote |-> FALSE, saving |-> FALSE,
     entry |-> 0, list |-> <<>>, snapshot |-> <<>>, content |-> <<>>]

\* no path is watched
WatchIdle ==
    /\ now = 0
    /\ entry = 0
    /\ workers = <<>>
    /\ events = <<>>
    /\ log = <<>>
    /\ file = to_string(<<>>)
    /\ resp = NoResponse
    /\ api = <<>>
    /\ hook = NoHook
    /\ server = Serving
    /\ run = NoRun

\* a repository with main checked out and a clean index and working tree
InitRepo ==
    /\ \E h \in Histories, tm \in Trees, tt \in Trees :
          /\ h = "unborn" => tm = EmptyTree
          /\ h \in {"unborn", "root"} => tt = EmptyTree
          \* save looks at the ancestry of the two tips only in merge,
          \* which it enters only when their trees are equal: "saved"
          \* stands for every history whose tips differ in their trees
          /\ h \in {"behind", "diverged", "unrelated"} => tm = tt
          \* contents are interchangeable: they are numbered in the order
          \* main's tip, the tracking branch's tip
          /\ tm["f"] <= 1
          /\ tt["f"] <= tm["f"] + 1
          /\ repo = [commits |-> HistoryCommits(h, tm, tt),
                     refs |-> HistoryRefs(h),
                     HEAD |-> Branch("main"),
                     index |-> tm,
                     workdir |-> tm,
                     state |-> "Clean"]
    /\ pre = repo
    /\ ret = NoReturn

\* save is called on a repository that the daemon does not watch
InitGit ==
    /\ InitRepo
    /\ WatchIdle

\* the user (or a tool) writes or deletes a file of the working tree
WriteFile(p, v) ==
    /\ ret.calls = 0
    /\ repo.workdir[p] # v
    /\ repo' = [repo EXCEPT !.workdir[p] = v]
    /\ pre' = repo'
    /\ UNCHANGED <<ret, watchvars>>

\* git add p / git rm --cached p (git add refuses an ignored path)
Stage(p, v) ==
    /\ ret.calls = 0
    /\ p \notin Ignored
    /\ v \in {repo.workdir[p], Absent}
    /\ repo.index[p] # v
    /\ repo' = [repo EXCEPT !.index[p] = v]
    /\ pre' = repo'
    /\ UNCHANGED <<ret, watchvars>>

\* git checkout -f <branch> / git checkout -f --detach <commit>
Checkout(target) ==
    /\ ret.calls = 0
    /\ repo.state = "Clean"
    /\ target # repo.HEAD
    /\ IF target.kind = "Branch" THEN repo.refs[target.name] # 0
       ELSE target.oid \in {repo.refs[b] : b \in Branches} \ {0}
    /\ LET tree == TreeOf(repo, IF target.kind = "Branch"
                                THEN repo.refs[target.name] ELSE target.oid)
       IN  repo' = [repo EXCEPT
                      !.HEAD = target,
                      !.index = tree,
                      !.workdir = [p \in Paths |->
                          IF p \in Ignored /\ tree[p] = Absent
                             /\ repo.index[p] = Absent
                          THEN repo.workdir[p] ELSE tree[p]]]
    /\ pre' = repo'
    /\ UNCHANGED <<ret, watchvars>>

\* a rebase (merge, cherry-pick) starts or ends: Repository::state()
SetState(s) ==
    /\ ret.calls = 0
    /\ repo.state # s
    /\ head(repo).ok
    /\ repo' = [repo EXCEPT !.state = s]
    /\ pre' = repo'
    /\ UNCHANGED <<ret, watchvars>>

\* the failures that leave save before it restores HEAD: the restoring
\* change_head_ref is not reached, or (restore_index) has succeeded
NoRestore ==
    {"is_saved", "backup_index", "create_branch", "reference_symbolic",
     "reset", "restore_index"}

\* a call of save has returned s
Called(s) ==
    /\ repo' = s.repo
    /\ pre' = repo
    /\ ret' = [result |-> s.result, step |-> s.step,
               restore |-> s.restore, after |-> ret.result,
               calls |-> ret.calls + 1,
               made |-> Len(s.repo.commits) - Len(repo.commits),
               before |-> ret.made]

\* save(conf.branch, conf.commit_message, conf.merge_message) is called
Save(fail, rfail) ==
    /\ ret.calls < MaxSaves
    /\ fail \in NoRestore => rfail = "none"
    /\ Called(save(repo, TrackingBranch, fail, rfail))
    /\ UNCHANGED watchvars

NextGit ==
    \/ \E p \in Paths : \E v \in ContentOf(p) : WriteFile(p, v)
    \/ \E p \in Paths : \E v \in ContentOf(p) : Stage(p, v)
    \/ \E b \in Branches : Checkout(Branch(b))
    \/ \E c \in 1..Len(repo.commits) : Checkout(Commit(c))
    \/ \E s \in {"Clean", "Rebase"} : SetState(s)
    \/ \E fail \in SaveFailures, rfail \in RestoreFailures : Save(fail, rfail)

SpecGit == InitGit /\ [][NextGit]_vars

(***************************************************************************)
(* Claims about save.                                                      *)
(***************************************************************************)
\* the tree of a commit and the working tree hold the same non-ignored files
SameFiles(tree, workdir) == \A p \in Paths \ Ignored : tree[p] = workdir[p]

\* save ran all its steps and committed
Committed == ret.result = "ok" /\ ret.step = 9

\* C1: after save returns success from a clean repository whose HEAD is a
\* branch or a detached commit, HEAD is the reference it was before the call:
\* the same branch name, or the same commit id as a direct reference.
C1_HeadPreserved ==
    (ret.result = "ok" /\ pre.state = "Clean" /\ head(pre).ok)
        => repo.HEAD = pre.HEAD

\* save committed from a detached HEAD, and from a branch
C1_Witness ==
    /\ Committed
    /\ pre.HEAD.kind = "Commit"
    /\ repo.refs[TrackingBranch] # pre.HEAD.oid

\* C2: if one of the steps 4 to 7 of save fails and the restoration of HEAD
\* does not fail, HEAD is the snapshot of step 3 when save returns the error.
C2_HeadRestoredOnError ==
    (ret.result = "err" /\ ret.step \in 4..7 /\ ret.restore # "failed")
        => repo.HEAD = pre.HEAD

\* C3: after save returns success the index holds exactly the entries it held
\* before the call (stated for a first save, called while HEAD is not the
\* tracking branch, so that HEAD's tree is the same before and after).
C3_IndexExact ==
    (ret.result = "ok" /\ ret.calls = 1 /\ pre.HEAD # Branch(TrackingBranch))
        => repo.index = pre.index

\* C4: after save returns success every entry that was in the index before
\* the call is in the index.
C4_IndexSuperset ==
    ret.result = "ok" =>
        \A p \in Paths : pre.index[p] # Absent => repo.index[p] = pre.index[p]

\* save committed while an entry was staged that HEAD's tree does not hold
C4_Witness ==
    /\ Committed
    /\ \E p \in Paths :
          /\ pre.index[p] # Absent
          /\ pre.index[p] # TreeOf(pre, head(pre).oid)[p]
          /\ pre.index[p] # pre.workdir[p]

\* C5: if the repository is clean and the working tree differs from HEAD's
\* tree and from the tracking branch's tree (or there is no tracking branch),
\* then after save returns success the tracking branch points to a commit
\* that did not exist before, whose tree is the non-ignored working tree.
C5_Advancement ==
    (/\ ret.result = "ok"
     /\ pre.state = "Clean"
     /\ head(pre).ok
     /\ ~SameFiles(TreeOf(pre, head(pre).oid), pre.workdir)
     /\ \/ pre.refs[TrackingBranch] = 0
        \/ ~SameFiles(TreeOf(pre, pre.refs[TrackingBranch]), pre.workdir))
        => /\ repo.refs[TrackingBranch] > Len(pre.commits)
           /\ repo.refs[TrackingBranch] # pre.refs[TrackingBranch]
           /\ SameFiles(TreeOf(repo, repo.refs[TrackingBranch]), pre.workdir)

\* save advanced an existing tracking branch by an auto-merge and a snapshot
C5_Witness ==
    /\ Committed
    /\ pre.refs[TrackingBranch] # 0
    /\ ret.made = 2
    /\ \E p \in Paths \ Ignored : pre.workdir[p] = Absent

\* C6: of two successive saves with nothing changed in between, the second
\* creates no commit and leaves every branch where it was.
C6_Idempotent ==
    (ret.calls >= 2 /\ ret.after = "ok")
        => /\ repo.commits = pre.commits
           /\ repo.refs = pre.refs

\* the first save committed and the second returned success
C6_Witness ==
    /\ ret.calls >= 2
    /\ ret.after = "ok"
    /\ ret.before > 0
    /\ ret.result = "ok"

(***************************************************************************)
(* The watch list and the debounce worker of one repository path.          *)
(***************************************************************************)
\* Config: the tracking branch and the debounce delay, in seconds
Config(delay) == [branch |-> TrackingBranch, delay |-> delay]
\* Config::default().delay
DefaultDelay == 3

\* the config lists handed to a debounce worker, in ascending delay
ConfigLists ==
    {<<Config(1)>>, <<Config(2)>>, <<Config(DefaultDelay)>>,
     <<Config(1), Config(3)>>, <<Config(2), Config(3)>>,
     <<Config(3), Config(30)>>}

\* what save or GitRepo::new does in a worker's invocation
WorkerFailures == {"none", "open", "commit"}

\* once(confs[0].delay).chain(confs.windows(2).map(|v| v[1].delay - v[0].delay))
relative_delays(confs) ==
    [i \in 1..Len(confs) |->
        IF i = 1 THEN confs[1].delay
        ELSE confs[i].delay - confs[i - 1].delay]

\* a worker thread as thread::spawn starts it: blocked in rx.recv(),
\* holding no lock
NewWorker(confs, connected) ==
    [confs |-> confs, pc |-> "recv", tier |-> 0, deadline |-> 0,
     queue |-> 0, connected |-> connected, call |-> 0, lock |-> FALSE]

\* the repository of the watched path
InitWatched ==
    /\ repo = [commits |-> HistoryCommits("root", EmptyTree, EmptyTree),
               refs |-> HistoryRefs("root"),
               HEAD |-> Branch("main"),
               index |-> EmptyTree,
               workdir |-> EmptyTree,
               state |-> "Clean"]
    /\ pre = repo
    /\ ret = NoReturn

\* the daemon serves with an empty watch list
InitDaemon ==
    /\ InitWatched
    /\ WatchIdle

\* one RepoWatcher::new(path, confs) has succeeded
InitDebounce ==
    /\ InitWatched
    /\ now = 0
    /\ entry = 1
    /\ \E confs \in ConfigLists :
          /\ workers = <<NewWorker(confs, TRUE)>>
          /\ file = to_string(<<confs>>)
    /\ events = <<>>
    /\ log = <<>>
    /\ resp = NoResponse
    /\ api = <<>>
    /\ hook = NoHook
    /\ server = Serving
    /\ run = NoRun

\* A file of the path is created, modified or removed: the callback of
\* every live watcher sends the event into its channel.
Event(p, v) ==
    /\ Len(events) < MaxEvents
    /\ now <= MaxEventTime
    /\ events' = Append(events, now)
    /\ workers' = [w \in DOMAIN workers |->
                     IF workers[w].connected
                     THEN [workers[w] EXCEPT !.queue = @ + 1]
                     ELSE workers[w]]
    /\ repo' = [repo EXCEPT !.workdir[p] = v]
    /\ pre' = repo'
    /\ UNCHANGED <<ret, now, entry, log, apivars, hookvars, servervars, runvars>>

\* the worker has a step to take at this very time
Urgent(w) ==
    LET k == workers[w]
    IN  \/ k.pc = "recv" /\ (k.queue > 0 \/ ~k.connected)
        \/ k.pc = "recv_timeout"
              /\ (k.queue > 0 \/ ~k.connected \/ now >= k.deadline)
        \/ k.pc = "save" /\ now - log[k.call].at >= MaxBusy

\* a second passes
Tick(limit) ==
    /\ now < limit
    /\ \A w \in DOMAIN workers : ~Urgent(w)
    /\ now' = now + 1
    /\ UNCHANGED <<gitvars, entry, workers, events, log, apivars, hookvars, servervars, runvars>>

\* the wait goes on to the deadline it had
RearmKept(deadline, relative_delay) == deadline
\* recv_timeout(Duration::from_secs(relative_delay)) is entered again
Rearm(deadline, relative_delay) == now + relative_delay

\* Recv that unlocks the configs as soon as it has read them
RecvUnlocked(w) ==
    LET k == workers[w]
    IN  /\ k.pc = "recv"
        /\ k.queue > 0
        /\ workers' = [workers EXCEPT ![w] =
              IF k.confs = <<>>
              THEN [k EXCEPT !.queue = @ - 1, !.pc = "exited"]
              ELSE [k EXCEPT !.queue = @ - 1, !.pc = "recv_timeout",
                             !.tier = 1,
                             !.deadline = now + relative_delays(k.confs)[1]]]
        /\ UNCHANGED <<gitvars, now, entry, events, log, apivars, hookvars, servervars, runvars>>
\* rx.recv() returns the first event of a cycle: lock the configs (the
\* guard lives to the end of the cycle, or to the return) and wait for the
\* first tier
Recv(w) ==
    LET k == workers[w]
    IN  /\ k.pc = "recv"
        /\ k.queue > 0
        /\ workers' = [workers EXCEPT ![w] =
              IF k.confs = <<>>
              THEN [k EXCEPT !.queue = @ - 1, !.pc = "exited"]
              ELSE [k EXCEPT !.queue = @ - 1, !.pc = "recv_timeout",
                             !.tier = 1, !.lock = TRUE,
                             !.deadline = now + relative_delays(k.confs)[1]]]
        /\ UNCHANGED <<gitvars, now, entry, events, log, apivars, hookvars, servervars, runvars>>

\* recv_timeout returns Ok(_): continue, waiting the relative delay again
RecvTimeoutOk(w) ==
    LET k == workers[w]
    IN  /\ k.pc = "recv_timeout"
        /\ k.queue > 0
        /\ workers' = [workers EXCEPT ![w] =
              [k EXCEPT !.queue = @ - 1,
                        !.deadline =
                            Rearm(@, relative_delays(k.confs)[k.tier])]]
        /\ UNCHANGED <<gitvars, now, entry, events, log, apivars, hookvars, servervars, runvars>>

\* recv_timeout that returns Err(Timeout) on a closed channel as well
TimeoutClosed(w) ==
    LET k == workers[w]
    IN  /\ k.pc = "recv_timeout"
        /\ k.queue = 0
        /\ now >= k.deadline
        /\ log' = Append(log, [w |-> w, tier |-> k.tier,
                               delay |-> k.confs[k.tier].delay,
                               at |-> now, ev |-> events[Len(events)],
                               end |-> -1, result |-> "none"])
        /\ workers' = [workers EXCEPT ![w] =
              [k EXCEPT !.pc = "save", !.call = Len(log) + 1]]
        /\ UNCHANGED <<gitvars, now, entry, events, apivars, hookvars, servervars, runvars>>
\* recv_timeout returns Err(Timeout): GitRepo::new and save are invoked
Timeout(w) ==
    LET k == workers[w]
    IN  /\ k.pc = "recv_timeout"
        /\ k.queue = 0
        /\ k.connected
        /\ now >= k.deadline
        /\ log' = Append(log, [w |-> w, tier |-> k.tier,
                               delay |-> k.confs[k.tier].delay,
                               at |-> now, ev |-> events[Len(events)],
                               end |-> -1, result |-> "none"])
        /\ workers' = [workers EXCEPT ![w] =
              [k EXCEPT !.pc = "save", !.call = Len(log) + 1]]
        /\ UNCHANGED <<gitvars, now, entry, events, apivars, hookvars, servervars, runvars>>

\* rx.recv() or recv_timeout finds the channel closed and empty: the
\* worker returns
Disconnected(w) ==
    LET k == workers[w]
    IN  /\ k.pc \in {"recv", "recv_timeout"}
        /\ k.queue = 0
        /\ ~k.connected
        /\ workers' = [workers EXCEPT ![w] =
              [k EXCEPT !.pc = "exited", !.lock = FALSE]]
        /\ UNCHANGED <<gitvars, now, entry, events, log, apivars, hookvars, servervars, runvars>>

\* the worker returns when the invocation has failed
AfterSaveHalt(k, result) ==
    IF result # "ok" THEN [k EXCEPT !.pc = "exited", !.lock = FALSE]
    ELSE IF k.tier < Len(k.confs)
    THEN [k EXCEPT !.pc = "recv_timeout", !.tier = @ + 1,
                   !.deadline = now + relative_delays(k.confs)[k.tier + 1]]
    ELSE [k EXCEPT !.pc = "recv", !.tier = 0, !.lock = FALSE]
\* whatever the invocation returned (an error is only logged): break to
\* the wait of the next tier, or to rx.recv() after the last one
AfterSave(k, result) ==
    IF k.tier < Len(k.confs)
    THEN [k EXCEPT !.pc = "recv_timeout", !.tier = @ + 1,
                   !.deadline = now + relative_delays(k.confs)[k.tier + 1]]
    ELSE [k EXCEPT !.pc = "recv", !.tier = 0, !.lock = FALSE]

\* the invocation returns: GitRepo::new has failed ("open"), or save has
\* returned
SaveDone(w, fail) ==
    LET k == workers[w]
        s == save(repo, k.confs[k.tier].branch, fail, "none")
        result == IF fail = "open" THEN "open" ELSE s.result
    IN  /\ k.pc = "save"
        /\ IF fail = "open" THEN UNCHANGED gitvars ELSE Called(s)
        /\ log' = [log EXCEPT ![k.call].end = now,
                              ![k.call].result = result]
        /\ workers' = [workers EXCEPT ![w] = AfterSave(k, result)]
        /\ UNCHANGED <<now, entry, events, apivars, hookvars, servervars, runvars>>

\* append_watch_dir that pushes the config onto the list the path has
append_watch_dir_push(config, ok) ==
    /\ workers' = Append(
          [w \in DOMAIN workers |->
              IF ok /\ w = entry
              THEN [workers[w] EXCEPT !.connected = FALSE]
              ELSE workers[w]],
          NewWorker(IF entry # 0 THEN Append(workers[entry].confs, config)
                    ELSE <<config>>, ok))
    /\ entry' = IF ok THEN Len(workers) + 1 ELSE entry
\* append_watch_dir constructs a RepoWatcher (its worker thread is spawned
\* first) and inserts the entry, dropping the entry the path had; a watcher
\* that cannot be constructed is dropped and the call fails.
append_watch_dir(config, ok) ==
    /\ workers' = Append(
          [w \in DOMAIN workers |->
              IF ok /\ w = entry
              THEN [workers[w] EXCEPT !.connected = FALSE]
              ELSE workers[w]],
          NewWorker(<<config>>, ok))
    /\ entry' = IF ok THEN Len(workers) + 1 ELSE entry

\* remove_watch_dir takes the entry out of the watch list and drops it; it
\* fails when the path has no entry
remove_watch_dir ==
    /\ workers' = IF entry = 0 THEN workers
                  ELSE [workers EXCEPT ![entry].connected = FALSE]
    /\ entry' = 0

\* what write_watch_list meets: no failure, the file cannot be opened, or
\* write_all fails after the file was truncated
WriteOutcomes == {"ok", "open", "write"}

\* write_watch_list: open watch.json (write, create, truncate), serialize
\* the watch list under its lock, write_all
write_watch_list(f, e, ws, out) ==
    CASE out = "open" -> [ok |-> FALSE, file |-> f]
      [] out = "write" -> [ok |-> FALSE, file |-> <<>>]
      [] OTHER -> [ok |-> TRUE, file |-> to_string(WatchListFile(e, ws))]

\* a worker is executing save
Saving == \E w \in DOMAIN workers : workers[w].pc = "save"

\* the end of a handler: unless the mutation failed (done is false), the
\* watch list is written, and the result of the write is the answer
Answer(req, done, out) ==
    LET wr == write_watch_list(file, entry', workers', out)
    IN  /\ file' = IF done THEN wr.file ELSE file
        /\ resp' = [req |-> req,
                    result |-> IF done /\ wr.ok THEN "success" ELSE "failed",
                    wrote |-> done /\ out # "open",
                    saving |-> Saving,
                    entry |-> entry,
                    list |-> WatchListFile(entry, workers),
                    snapshot |-> IF done /\ out # "open"
                                 THEN WatchListFile(entry', workers')
                                 ELSE <<>>,
                    content |-> file']
        /\ UNCHANGED <<gitvars, now, events, log, api, hook>>

\* POST /watch {action: add, path, config}
Add(config, ok, out) ==
    /\ Len(workers) < MaxWorkers
    /\ ~ok => out = "ok"
    /\ append_watch_dir(config, ok)
    /\ Answer("add", ok, out)
    /\ UNCHANGED server

\* POST /watch {action: remove, path}
Remove(out) ==
    /\ entry = 0 => out = "ok"
    /\ remove_watch_dir
    /\ Answer("remove", entry # 0, out)
    /\ UNCHANGED server

\* POST /kill: the waiters of NOTIFY are notified, the watch list is written
kill(out) ==
    /\ workers' = workers
    /\ entry' = entry
    /\ server' = notify_waiters(server)
    /\ Answer("kill", TRUE, out)

\* axum::serve hands a request of some client to its handler
Serve(request) ==
    /\ server.pc = "serve"
    /\ request
    /\ UNCHANGED run

NextDebounce ==
    \/ \E p \in Paths : \E v \in ContentOf(p) : Event(p, v)
    \/ Tick(MaxTime)
    \/ \E w \in DOMAIN workers : Recv(w)
    \/ \E w \in DOMAIN workers : RecvTimeoutOk(w)
    \/ \E w \in DOMAIN workers : Timeout(w)
    \/ \E w \in DOMAIN workers : \E fail \in WorkerFailures : SaveDone(w, fail)

SpecDebounce == InitDebounce /\ [][NextDebounce]_vars

NextDaemon ==
    \/ \E p \in Paths : \E v \in ContentOf(p) : Event(p, v)
    \/ Tick(MaxDaemonTime)
    \/ \E w \in DOMAIN workers : Recv(w)
    \/ \E w \in DOMAIN workers : RecvTimeoutOk(w)
    \/ \E w \in DOMAIN workers : Timeout(w)
    \/ \E w \in DOMAIN workers : Disconnected(w)
    \/ \E w \in DOMAIN workers : \E fail \in WorkerFailures : SaveDone(w, fail)
    \/ \E d \in 1..MaxAddDelay : \E ok \in BOOLEAN : \E out \in WriteOutcomes :
          Serve(Add(Config(d), ok, out))
    \/ \E out \in WriteOutcomes : Serve(Remove(out))
    \/ \E out \in WriteOutcomes : Serve(kill(out))

SpecDaemon == InitDaemon /\ [][NextDaemon]_vars

\* the steps that the thread of worker w takes by itself: the returns of
\* recv and recv_timeout that do not wait for the clock, and the return of
\* the invocation (GitRepo::new has failed, or save has returned)
WorkerStep(w) ==
    /\ w \in DOMAIN workers
    /\ \/ Recv(w)
       \/ RecvTimeoutOk(w)
       \/ Disconnected(w)
       \/ SaveDone(w, "open")
       \/ \E fail \in WorkerFailures \ {"open"} : SaveDone(w, fail)

\* the path that is watched is removed from the watch list, at any moment
\* of its worker
NextClose ==
    \/ \E p \in Paths : \E v \in ContentOf(p) : Event(p, v)
    \/ Tick(MaxDaemonTime)
    \/ \E w \in DOMAIN workers : Recv(w)
    \/ \E w \in DOMAIN workers : RecvTimeoutOk(w)
    \/ \E w \in DOMAIN workers : Timeout(w)
    \/ \E w \in DOMAIN workers : Disconnected(w)
    \/ \E w \in DOMAIN workers : \E fail \in WorkerFailures : SaveDone(w, fail)
    \/ \E out \in WriteOutcomes : Serve(Remove(out))

SpecClose == InitDebounce /\ [][NextClose]_vars

\* every worker is a thread of its own, which the scheduler runs
FairClose == SpecClose /\ \A w \in 1..MaxWorkers : WF_vars(WorkerStep(w))

(***************************************************************************)
(* The handlers as concurrent tasks of the runtime: a handler can be       *)
(* suspended where it awaits the opening of watch.json.                    *)
(***************************************************************************)
\* at most MaxHandlers requests are in progress at a time
MaxHandlers == 3

\* a task that handles no request
Idle == [pc |-> "idle", req |-> "none", entry |-> 0, list |-> <<>>]

\* the daemon serves with an empty watch list and no request in progress
InitApi ==
    /\ InitWatched
    /\ now = 0
    /\ entry = 0
    /\ workers = <<>>
    /\ events = <<>>
    /\ log = <<>>
    /\ file = to_string(<<>>)
    /\ resp = NoResponse
    /\ api = [h \in 1..MaxHandlers |-> Idle]
    /\ hook = NoHook
    /\ server = Serving
    /\ run = NoRun

\* write_all on a descriptor that open has just returned: the bytes go to
\* offset 0 and what the file holds beyond them stays
Overwrite(f, data) == data \o SubSeq(f, Len(data) + 1, Len(f))

\* the handler h has changed the watch list (done) or failed to: it goes on
\* to write_watch_list, or answers Failed
Changed(h, req, done) ==
    /\ api[h].pc = "idle"
    /\ IF done
       THEN /\ api' = [api EXCEPT ![h] =
                         [pc |-> "open", req |-> req, entry |-> entry,
                          list |-> WatchListFile(entry, workers)]]
            /\ UNCHANGED resp
       ELSE /\ resp' = [req |-> req, result |-> "failed", wrote |-> FALSE,
                        saving |-> Saving, entry |-> entry,
                        list |-> WatchListFile(entry, workers),
                        snapshot |-> <<>>, content |-> file]
            /\ UNCHANGED api
    /\ UNCHANGED <<gitvars, now, events, log, file, hook>>

\* change_watch_list, Add: up to the first await of write_watch_list
AddRequest(h, config, ok) ==
    /\ Len(workers) < MaxWorkers
    /\ append_watch_dir(config, ok)
    /\ Changed(h, "add", ok)
    /\ UNCHANGED <<server, run>>

\* change_watch_list, Remove: up to the first await of write_watch_list
RemoveRequest(h) ==
    /\ remove_watch_dir
    /\ Changed(h, "remove", entry # 0)
    /\ UNCHANGED <<server, run>>

\* kill: up to the first await of write_watch_list
KillRequest(h) ==
    /\ workers' = workers
    /\ entry' = entry
    /\ server' = notify_waiters(server)
    /\ Changed(h, "kill", TRUE)
    /\ UNCHANGED run

\* write_watch_list: OpenOptions::open has returned, the file is truncated
Open(h, out) ==
    /\ api[h].pc = "open"
    /\ IF out = "open"
       THEN /\ api' = [api EXCEPT ![h] = Idle]
            /\ resp' = [req |-> api[h].req, result |-> "failed",
                        wrote |-> FALSE, saving |-> Saving,
                        entry |-> api[h].entry, list |-> api[h].list,
                        snapshot |-> <<>>, content |-> file]
            /\ UNCHANGED file
       ELSE /\ api' = [api EXCEPT ![h].pc = "write"]
            /\ file' = <<>>
            /\ UNCHANGED resp
    /\ UNCHANGED <<gitvars, now, entry, workers, events, log, hookvars, servervars, runvars>>

\* write_watch_list: the watch list is serialized under its lock and
\* written with write_all, and the handler answers
WriteAll(h, out) ==
    LET data == to_string(WatchListFile(entry, workers))
    IN  /\ api[h].pc = "write"
        /\ file' = IF out = "write" THEN file ELSE Overwrite(file, data)
        /\ resp' = [req |-> api[h].req,
                    result |-> IF out = "write" THEN "failed" ELSE "success",
                    wrote |-> TRUE, saving |-> Saving,
                    entry |-> api[h].entry, list |-> api[h].list,
                    snapshot |-> WatchListFile(entry, workers),
                    content |-> file']
        /\ api' = [api EXCEPT ![h] = Idle]
        /\ UNCHANGED <<gitvars, now, entry, workers, events, log, hookvars, servervars, runvars>>

NextApi ==
    \/ \E h \in 1..MaxHandlers : \E d \in 1..MaxAddDelay : \E ok \in BOOLEAN :
          AddRequest(h, Config(d), ok)
    \/ \E h \in 1..MaxHandlers : RemoveRequest(h)
    \/ \E h \in 1..MaxHandlers : KillRequest(h)
    \/ \E h \in 1..MaxHandlers : \E out \in {"ok", "open"} : Open(h, out)
    \/ \E h \in 1..MaxHandlers : \E out \in {"ok", "write"} : WriteAll(h, out)

SpecApi == InitApi /\ [][NextApi]_vars

(***************************************************************************)
(* The daemon from its start: run_server reads the watch list, then serves. *)
(***************************************************************************)
\* the file could not be read, or not parsed
Unread == [some |-> FALSE, data |-> <<>>]

\* serde_json::from_slice::<WatchListFile>: the text is read token by token;
\* None unless it is a whole object and nothing else
from_slice(text) ==
    LET n == Len(text)
        inner == SubSeq(text, 2, n - 1)
    IN  IF n < 2 \/ text[1][1] # "{" \/ text[n][1] # "}" THEN Unread
        ELSE IF inner = <<>> THEN [some |-> TRUE, data |-> <<>>]
        ELSE IF inner[1][1] # "path" THEN Unread
        ELSE IF \E i \in 2..Len(inner) : inner[i][1] # "config" THEN Unread
        ELSE [some |-> TRUE,
              data |-> <<[i \in 1..(Len(inner) - 1) |->
                          [branch |-> inner[i + 1][2],
                           delay |-> inner[i + 1][3]]]>>]

\* what watch.json can hold when the daemon starts: a watch list as
\* write_watch_list writes it, nothing, or a short text written over a
\* longer one
StartupFiles ==
    {to_string(<<>>), <<>>,
     Overwrite(to_string(<<<<Config(1)>>>>), to_string(<<>>))}
        \cup {to_string(<<confs>>) : confs \in ConfigLists}

\* run_server is about to call read_watch_list
InitServer ==
    /\ InitWatched
    /\ now = 0
    /\ entry = 0
    /\ workers = <<>>
    /\ events = <<>>
    /\ log = <<>>
    /\ file \in StartupFiles
    /\ resp = NoResponse
    /\ api = <<>>
    /\ hook = NoHook
    /\ server = [Serving EXCEPT !.pc = "read"]
    /\ run = NoRun

\* every entry of the file is kept, whether its watcher was constructed
\* or not
filter_map_all(data, ok) == data
\* filter_map(|(k, v)| RepoWatcher::new(&k, v.config).map(..).ok()): the
\* entries of the file whose watcher was constructed
filter_map(data, ok) == IF ok THEN data ELSE <<>>

\* read_watch_list: the file is read and parsed, or replaced by the file of
\* an empty watch list (failing the start when that cannot be written); a
\* watcher is constructed for every path of the file
read_watch_list(readable, ok, out) ==
    LET parsed == IF readable THEN from_slice(file) ELSE Unread
        data == IF parsed.some THEN parsed.data ELSE <<>>
        written == write_watch_list(file, 0, workers, out)
        started == parsed.some \/ written.ok
        watch_list == filter_map(data, ok)
    IN  /\ server.pc = "read"
        /\ parsed.some => out = "ok"
        /\ data = <<>> => ok
        /\ file' = IF parsed.some THEN file ELSE written.file
        /\ workers' = IF started /\ data # <<>>
                      THEN <<NewWorker(data[1], ok)>>
                      ELSE <<>>
        /\ entry' = IF started /\ watch_list # <<>> THEN 1 ELSE 0
        /\ server' = [server EXCEPT
                        !.pc = IF started THEN "serve" ELSE "failed",
                        !.readable = readable,
                        !.text = file,
                        !.constructed = ok]
        /\ UNCHANGED <<gitvars, now, events, log, resp, api, hook, run>>

NextServer ==
    \/ \E readable \in BOOLEAN, ok \in BOOLEAN, out \in WriteOutcomes :
          read_watch_list(readable, ok, out)
    \/ \E d \in 1..MaxAddDelay : \E ok \in BOOLEAN : \E out \in WriteOutcomes :
          Serve(Add(Config(d), ok, out))
    \/ \E out \in WriteOutcomes : Serve(Remove(out))
    \/ \E out \in WriteOutcomes : Serve(kill(out))

SpecServer == InitServer /\ [][NextServer]_vars

\* a request that has arrived is handled, and the runtime runs run_server
FairServer == SpecServer /\ WF_vars(NextServer)

(***************************************************************************)
(* Claims about the debounce worker and the watch list.                    *)
(***************************************************************************)
\* the time of the most recent event
LastEvent == events[Len(events)]
\* each event follows the previous one by less than d seconds
Burst(d) == \A i \in 2..Len(events) : events[i] - events[i - 1] < d

\* C7: with a single config of delay d and events that each follow the
\* previous one by less than d, the worker invokes save once, d seconds
\* after the last event: never at another time, never twice, and it has
\* done so once more than d seconds have passed.
C7_Debounce ==
    LET confs == workers[1].confs
        d == confs[1].delay
    IN  (Len(confs) = 1 /\ events # <<>> /\ Burst(d)) =>
            /\ Len(log) <= 1
            /\ \A i \in DOMAIN log : log[i].at = LastEvent + d
            /\ now > LastEvent + d => Len(log) = 1

\* a burst of two events at different times has been saved once
C7_Witness ==
    /\ Len(workers[1].confs) = 1
    /\ Len(events) = 2
    /\ events[2] > events[1]
    /\ Burst(workers[1].confs[1].delay)
    /\ Len(log) = 1
    /\ log[1].end >= log[1].at
    /\ now > LastEvent + workers[1].confs[1].delay

\* C8: every save of tier i is invoked exactly config[i].delay seconds after
\* the most recent event, also when that event arrived after tier i-1 had
\* fired (stated for invocations before which every save took no time).
C8_TierAtDelay ==
    \A i \in DOMAIN log :
        (\A j \in 1..(i - 1) : log[j].end = log[j].at)
            => log[i].at = log[i].ev + log[i].delay

\* C9: with the configs [{delay:3},{delay:30}] and a single event, save is
\* invoked with the first config 3 seconds after the event, with the second
\* config 30 seconds after the event, and not again.
C9_ThreeAndThirty ==
    (workers[1].confs = <<Config(3), Config(30)>> /\ Len(events) = 1) =>
        /\ Len(log) <= 2
        /\ Len(log) >= 1 => (log[1].tier = 1 /\ log[1].at = events[1] + 3)
        /\ Len(log) >= 2 => (log[2].tier = 2 /\ log[2].at = events[1] + 30)
        /\ now > events[1] + 30 => Len(log) = 2

\* C10: at most one save invocation is in progress for the path.
C10_OneSaveInProgress ==
    Cardinality({w \in DOMAIN workers : workers[w].pc = "save"}) <= 1

\* the thread of worker w has not returned, and it has more to do than to
\* drain its closed channel and return
Live(w) ==
    LET k == workers[w]
    IN  /\ k.pc # "exited"
        /\ k.connected \/ k.pc = "save"

\* C11: the path has at most one live filesystem watcher and at most one
\* live debounce worker thread, also after an add for a path that has an
\* entry and after a remove.
C11_OneWatcherOneWorker ==
    /\ Cardinality({w \in DOMAIN workers : workers[w].connected}) <= 1
    /\ Cardinality({w \in DOMAIN workers : Live(w)}) <= 1

\* the invocations that failed: save returned an error, or the repository
\* could not be opened
Failed == {i \in DOMAIN log : log[i].result \in {"err", "open"}}

\* C12: after an invocation that failed, the worker has not returned and the
\* entry is still in the watch list; until its next invocation the worker
\* waits for the next tier or, after the last tier, for an event (or for the
\* first tier of the cycle that event started); and once an event has come
\* after the failure, save is invoked again.
C12_ErrorKeepsWorker ==
    \A i \in Failed :
        LET k == workers[log[i].w]
        IN  /\ k.pc # "exited"
            /\ entry = log[i].w
            /\ i = Len(log) =>
                  IF log[i].tier < Len(k.confs)
                  THEN k.pc = "recv_timeout" /\ k.tier = log[i].tier + 1
                  ELSE \/ k.pc = "recv"
                       \/ k.pc = "recv_timeout" /\ k.tier = 1
            /\ (LastEvent > log[i].end
                  /\ now > LastEvent + k.confs[Len(k.confs)].delay)
                  => Len(log) > i

\* an event that came after a failed invocation of the last tier has led
\* to another invocation
C12_Witness ==
    \E i \in Failed :
        /\ log[i].tier = Len(workers[log[i].w].confs)
        /\ LastEvent > log[i].end
        /\ Len(log) > i
        /\ log[i + 1].at > LastEvent

(***************************************************************************)
(* The path-redirection preload library (src/src/redirect.rs).  A string   *)
(* is the sequence of its characters.                                      *)
(***************************************************************************)
\* the directory names that occur in paths
Orig == <<"o", "r", "i", "g">>
OrigX == <<"o", "r", "i", "g", "x">>
Wt == <<"w", "t">>
DotGit == <<".", "g", "i", "t">>
DotGitX == <<".", "g", "i", "t", "x">>
NameA == <<"a">>
NameB == <<"b">>
\* a directory that .gitignore names
Build == <<"t">>
\* a name that is not valid UTF-8
Latin1 == <<"\\xE9">>
Dot == <<".">>
DotDot == <<".", ".">>

\* the characters of a path with the given components
RECURSIVE Joined(_)
Joined(comps) ==
    IF comps = <<>> THEN <<>>
    ELSE IF Len(comps) = 1 THEN comps[1]
    ELSE comps[1] \o <<"/">> \o Joined(Tail(comps))
PathStr(absolute, comps) ==
    IF absolute THEN <<"/">> \o Joined(comps) ELSE Joined(comps)

\* str::starts_with
StartsWith(s, prefix) ==
    Len(prefix) <= Len(s) /\ SubSeq(s, 1, Len(prefix)) = prefix

\* Path::is_absolute
is_absolute(path) == path # <<>> /\ path[1] = "/"

\* Path::components of an absolute path: the names between the
\* separators, without the empty ones and "."
RECURSIVE components(_)
components(s) ==
    IF s = <<>> THEN <<>>
    ELSE IF s[1] = "/" THEN components(Tail(s))
    ELSE LET seps == {i \in 1..Len(s) : s[i] = "/"}
             n == IF seps = {} THEN Len(s) + 1
                  ELSE CHOOSE i \in seps : \A j \in seps : i <= j
             name == SubSeq(s, 1, n - 1)
             rest == SubSeq(s, n, Len(s))
         IN  IF name = Dot THEN components(rest)
             ELSE <<name>> \o components(rest)

\* the loop of normalize_path: push a normal component, pop on ".."
RECURSIVE Normalized(_, _)
Normalized(comps, normalized) ==
    IF comps = <<>> THEN normalized
    ELSE IF Head(comps) = DotDot
    THEN Normalized(Tail(comps),
                    IF normalized = <<>> THEN <<>>
                    ELSE SubSeq(normalized, 1, Len(normalized) - 1))
    ELSE Normalized(Tail(comps), Append(normalized, Head(comps)))

\* normalize_path: join a relative path with the current directory, then
\* drop "." and resolve ".." lexically; the result as its components
normalize_path(path, cwd) ==
    Normalized(components(IF is_absolute(path) THEN path
                          ELSE cwd \o <<"/">> \o path), <<>>)

\* Path::to_str / CStr::to_str: None unless the bytes are valid UTF-8
to_str(s) == [some |-> \A i \in 1..Len(s) : s[i] # Latin1[1], str |-> s]

\* Path::starts_with: a prefix component by component
starts_with(comps, prefix) ==
    Len(prefix) <= Len(comps) /\ SubSeq(comps, 1, Len(prefix)) = prefix

\* at most MaxDepth components in a path handed to an entry point
MaxDepth == 3
\* at most MaxPairDepth components in each path of a two-path entry point
MaxPairDepth == 3
\* at most MaxNest hooked calls in progress on a thread
MaxNest == 2

\* the threads of the process
Threads == {"t1", "t2"}

\* the environment at library load: REDIRECT_FROM, REDIRECT_TO (<<>> when
\* absent) and REDIRECT_SKIP_GITIGNORE
Environments ==
    [from : {<<>>, PathStr(TRUE, <<Orig>>)},
     to : {<<>>, PathStr(TRUE, <<Wt>>)},
     skip : {"unset", "0", "1"}]

\* one of REDIRECT_FROM and REDIRECT_TO is enough
init_either(env) ==
    IF env.from # <<>> \/ env.to # <<>>
    THEN [enabled |-> TRUE, from |-> env.from, to |-> env.to,
          skip |-> env.skip # "0"]
    ELSE [enabled |-> FALSE, from |-> <<>>, to |-> <<>>, skip |-> FALSE]
\* init: the configuration read from the environment, both REDIRECT_FROM
\* and REDIRECT_TO or nothing
init(env) ==
    IF env.from # <<>> /\ env.to # <<>>
    THEN [enabled |-> TRUE, from |-> env.from, to |-> env.to,
          skip |-> env.skip # "0"]
    ELSE [enabled |-> FALSE, from |-> <<>>, to |-> <<>>, skip |-> FALSE]

\* GitRepo::new(dir): Repository::open succeeds on the root of a
\* repository or of a worktree; it does not search upwards
RepositoryRoots == {<<Orig>>, <<Wt>>}

\* GitRepo::is_ignored: the path is matched by the .gitignore rules
is_ignored(absolute) ==
    \E root \in RepositoryRoots : starts_with(absolute, Append(root, Build))

\* is_gitignored: open the repository at the path itself and ask it
is_gitignored(cfg, absolute) ==
    IF ~cfg.skip THEN FALSE
    ELSE IF absolute \notin RepositoryRoots THEN FALSE
    ELSE is_ignored(absolute)

None == [some |-> FALSE, str |-> <<>>]
Some(str) == [some |-> TRUE, str |-> str]

\* redirect_path_str
redirect_path_str(cfg, cwd, path_str) ==
    IF ~cfg.enabled THEN None
    ELSE
    LET from == cfg.from
        absolute_path == normalize_path(path_str, cwd)
        absolute == to_str(PathStr(TRUE, absolute_path))
        absolute_str == absolute.str
        is_git ==
            \/ absolute_str = from \o <<"/">> \o DotGit
            \/ starts_with(absolute_path,
                           components(from \o <<"/">> \o DotGit \o <<"/">>))
    IN  IF ~absolute.some THEN None
        ELSE IF is_git THEN None
        ELSE IF is_gitignored(cfg, absolute_path) THEN None
        ELSE IF StartsWith(absolute_str, from \o <<"/">>)
        THEN Some(cfg.to \o <<"/">>
                  \o SubSeq(absolute_str, Len(from) + 2, Len(absolute_str)))
        ELSE IF absolute_str = from THEN Some(cfg.to)
        ELSE None

\* get_redirect_path
get_redirect_path(cfg, cwd, path) ==
    IF ~to_str(path).some THEN None
    ELSE redirect_path_str(cfg, cwd, path)

\* redirected.as_ref().map_or(path, |v| v.as_ptr())
Actual(cfg, cwd, path) ==
    LET redirected == get_redirect_path(cfg, cwd, path)
    IN  IF redirected.some THEN redirected.str ELSE path

\* libc's AT_FDCWD
AT_FDCWD == -100
\* the descriptor arguments: AT_FDCWD, two open directories, and a
\* descriptor whose directory cannot be read from /proc/self/fd
Dirfds == {AT_FDCWD, 3, 4, 5}
\* std::fs::read_link("/proc/self/fd/<dirfd>")
read_link(dirfd) ==
    CASE dirfd = 3 -> Some(PathStr(TRUE, <<Orig>>))
      [] dirfd = 4 -> Some(PathStr(TRUE, <<NameA>>))
      [] OTHER -> None

\* PathBuf::join: an absolute path replaces the base
join(base, path) ==
    IF is_absolute(path) THEN path
    ELSE IF base[Len(base)] = "/" THEN base \o path
    ELSE base \o <<"/">> \o path

\* get_redirect_path_at that resolves every relative path against the
\* current directory
get_redirect_path_at_cwd(cfg, cwd, dirfd, path) ==
    IF ~to_str(path).some THEN None
    ELSE redirect_path_str(cfg, cwd, path)
\* get_redirect_path_at
get_redirect_path_at(cfg, cwd, dirfd, path) ==
    IF ~to_str(path).some THEN None
    ELSE IF path # <<>> /\ path[1] = "/"
    THEN redirect_path_str(cfg, cwd, path)
    ELSE IF dirfd = AT_FDCWD THEN redirect_path_str(cfg, cwd, path)
    ELSE LET resolved == read_link(dirfd)
             full_path == join(resolved.str, path)
         IN  IF ~resolved.some THEN None
             ELSE IF ~to_str(full_path).some THEN None
             ELSE redirect_path_str(cfg, cwd, full_path)

\* the names in the path of a single-path call
Names == {Orig, OrigX, DotGit, DotGitX, NameA, Build, Latin1, Dot, DotDot}
\* the directory names and the file names in the paths of a two-path call
PairDirs == {Orig, DotGit}
PairLeaves == {NameA, NameB}

\* the sequences of at most n names
SeqsUpTo(names, n) == UNION {[1..k -> names] : k \in 0..n}

\* the path arguments: absolute or relative
RawPaths ==
    {PathStr(absolute, comps) :
        absolute \in BOOLEAN, comps \in SeqsUpTo(Names, MaxDepth)}
PairPaths ==
    {PathStr(TRUE, dir \o leaf) :
        dir \in SeqsUpTo(PairDirs, MaxPairDepth - 1),
        leaf \in SeqsUpTo(PairLeaves, 1)}

\* paths that leave the directory they are written in, or enter another
\* one, by "..": <from>/a/../../b, /a/../<from>/b, <from>/a/../.git/b, and
\* the same from the current directory
DotDotPaths ==
    {PathStr(TRUE, <<Orig, NameA, DotDot, DotDot, NameB>>),
     PathStr(TRUE, <<NameA, DotDot, Orig, NameB>>),
     PathStr(TRUE, <<Orig, NameA, DotDot, DotGit, NameB>>),
     PathStr(FALSE, <<NameA, DotDot, DotDot, NameB>>),
     PathStr(FALSE, <<DotDot, Orig, NameA, DotDot, DotGit, NameB>>)}

\* the path arguments of the calls of a process: one path, or two
Arguments ==
    {<<path>> : path \in RawPaths \cup DotDotPaths}
        \cup {<<old, new>> : old \in PairPaths, new \in PairPaths}

\* at most MaxAtDepth components in the path of a call with a descriptor
MaxAtDepth == 1
\* the path arguments of the calls with a descriptor
AtPaths ==
    {PathStr(absolute, comps) :
        absolute \in BOOLEAN, comps \in SeqsUpTo(Names, MaxAtDepth)}

\* the current directory of the process
Cwds == {PathStr(TRUE, <<>>), PathStr(TRUE, <<Orig>>)}

\* no original function has been called
NoCall ==
    [thread |-> "none", given |-> <<>>, passed |-> <<>>, nested |-> FALSE,
     guard |-> FALSE]

\* no original function with a descriptor argument has been called
NoCallAt ==
    [thread |-> "none", dirfd |-> AT_FDCWD, fd |-> AT_FDCWD, given |-> <<>>,
     passed |-> <<>>, nested |-> FALSE]

\* the library is loaded into a process: init has run
InitHook ==
    /\ InitWatched
    /\ now = 0
    /\ entry = 0
    /\ workers = <<>>
    /\ events = <<>>
    /\ log = <<>>
    /\ file = to_string(<<>>)
    /\ resp = NoResponse
    /\ api = <<>>
    /\ \E env \in Environments, cwd \in Cwds, args \in Arguments :
          hook = [loaded |-> TRUE, cfg |-> init(env), cwd |-> cwd,
                  absent |-> env.from = <<>> \/ env.to = <<>>,
                  args |-> args,
                  IN_HOOK |-> [t \in Threads |-> FALSE],
                  depth |-> [t \in Threads |-> 0],
                  last |-> NoCall,
                  at |-> NoCallAt]
    /\ server = Serving
    /\ run = NoRun

\* every call enters the hook, also a nested one
try_enter_always(flag) == [some |-> TRUE, flag |-> TRUE]
\* RecursionGuard::try_enter: None when the thread is inside a hook
try_enter(flag) == [some |-> ~flag, flag |-> TRUE]

\* the first path decides for every path of the call
HookedTogether(t, args) ==
    LET guard == try_enter(hook.IN_HOOK[t])
        first == get_redirect_path(hook.cfg, hook.cwd, args[1])
    IN  /\ guard.some => hook.depth[t] < MaxNest
        /\ hook' =
              IF guard.some
              THEN [hook EXCEPT
                      !.IN_HOOK[t] = guard.flag,
                      !.depth[t] = @ + 1,
                      !.last = [thread |-> t, given |-> args,
                                passed |-> [i \in DOMAIN args |->
                                    IF first.some
                                    THEN Actual(hook.cfg, hook.cwd, args[i])
                                    ELSE args[i]],
                                nested |-> hook.depth[t] > 0,
                                guard |-> guard.flag]]
              ELSE [hook EXCEPT
                      !.last = [thread |-> t, given |-> args,
                                passed |-> args,
                                nested |-> hook.depth[t] > 0,
                                guard |-> hook.IN_HOOK[t]]]
        /\ UNCHANGED <<gitvars, now, entry, workers, events, log, apivars,
                     servervars, runvars>>
\* Thread t calls an intercepted entry point with the path arguments args:
\* inside a hook the original is called with the arguments as given;
\* otherwise the guard is taken and the original is called with each path
\* as redirected.
Hooked(t, args) ==
    LET guard == try_enter(hook.IN_HOOK[t])
    IN  /\ guard.some => hook.depth[t] < MaxNest
        /\ hook' =
              IF guard.some
              THEN [hook EXCEPT
                      !.IN_HOOK[t] = guard.flag,
                      !.depth[t] = @ + 1,
                      !.last = [thread |-> t, given |-> args,
                                passed |-> [i \in DOMAIN args |->
                                    Actual(hook.cfg, hook.cwd, args[i])],
                                nested |-> hook.depth[t] > 0,
                                guard |-> guard.flag]]
              ELSE [hook EXCEPT
                      !.last = [thread |-> t, given |-> args,
                                passed |-> args,
                                nested |-> hook.depth[t] > 0,
                                guard |-> hook.IN_HOOK[t]]]
        /\ UNCHANGED <<gitvars, now, entry, workers, events, log, apivars,
                     servervars, runvars>>

\* the guard is dropped without clearing IN_HOOK
DropKept(t) ==
    /\ hook.depth[t] > 0
    /\ hook' = [hook EXCEPT !.depth[t] = @ - 1]
    /\ UNCHANGED <<gitvars, now, entry, workers, events, log, apivars,
                     servervars, runvars>>
\* the original function has returned to a hook that holds a guard: the
\* guard is dropped
Drop(t) ==
    /\ hook.depth[t] > 0
    /\ hook' = [hook EXCEPT !.IN_HOOK[t] = FALSE, !.depth[t] = @ - 1]
    /\ UNCHANGED <<gitvars, now, entry, workers, events, log, apivars,
                     servervars, runvars>>

\* a single-path entry point is called on thread t
open(t) ==
    /\ Len(hook.args) = 1
    /\ Hooked(t, hook.args)

\* a two-path entry point is called on thread t
rename(t) ==
    /\ Len(hook.args) = 2
    /\ Hooked(t, hook.args)

\* Thread t calls an intercepted *at entry point: the descriptor is handed
\* on as given, the path as get_redirect_path_at redirects it
HookedAt(t, dirfd, path) ==
    LET guard == try_enter(hook.IN_HOOK[t])
        redirected == get_redirect_path_at(hook.cfg, hook.cwd, dirfd, path)
        actual == IF redirected.some THEN redirected.str ELSE path
    IN  /\ guard.some => hook.depth[t] < MaxNest
        /\ hook' =
              IF guard.some
              THEN [hook EXCEPT
                      !.IN_HOOK[t] = guard.flag,
                      !.depth[t] = @ + 1,
                      !.at = [thread |-> t, dirfd |-> dirfd, fd |-> dirfd,
                              given |-> path, passed |-> actual,
                              nested |-> hook.depth[t] > 0]]
              ELSE [hook EXCEPT
                      !.at = [thread |-> t, dirfd |-> dirfd, fd |-> dirfd,
                              given |-> path, passed |-> path,
                              nested |-> hook.depth[t] > 0]]
        /\ UNCHANGED <<gitvars, now, entry, workers, events, log, apivars,
                     servervars, runvars>>

\* openat(dirfd, path, flags, mode) is called on thread t
openat(t, dirfd) ==
    /\ Len(hook.args) = 1
    /\ hook.args[1] \in AtPaths
    /\ HookedAt(t, dirfd, hook.args[1])

NextHook ==
    \/ \E t \in Threads : open(t)
    \/ \E t \in Threads : rename(t)
    \/ \E t \in Threads : \E dirfd \in Dirfds : openat(t, dirfd)
    \/ \E t \in Threads : Drop(t)

SpecHook == InitHook /\ [][NextHook]_vars

\* the lexically normalised absolute form of a path argument
P(path) == PathStr(TRUE, normalize_path(path, hook.cwd))

\* the argument the single-path rule asks for
Ruled(path) ==
    LET from == hook.cfg.from
        git == from \o <<"/">> \o DotGit
    IN  IF /\ P(path) = from \/ StartsWith(P(path), from \o <<"/">>)
           /\ P(path) # git
           /\ ~StartsWith(P(path), git \o <<"/">>)
           /\ hook.cfg.skip => ~is_ignored(components(P(path)))
        THEN hook.cfg.to \o SubSeq(P(path), Len(from) + 1, Len(P(path)))
        ELSE path

\* a call from outside every hook has reached the original function
TopLevel(n) ==
    /\ hook.loaded
    /\ hook.cfg.enabled
    /\ hook.last.thread # "none"
    /\ ~hook.last.nested
    /\ Len(hook.last.given) = n

\* C13: with redirection configured, a single-path entry point called
\* from outside every hook hands the original function to + P[len(from):]
\* when the normalised path P is from or under from, is not from/.git nor
\* under it and (with skip_gitignore) is not ignored, and the caller's path
\* otherwise.
C13_SinglePathRule ==
    TopLevel(1) => hook.last.passed[1] = Ruled(hook.last.given[1])

\* C14: a call to an intercepted entry point made on a thread while a
\* hooked call is in progress on that thread reaches the original function
\* with its arguments as given, and as long as a hooked call is in progress
\* on a thread the guard of that thread stays set.
C14_NestedBypass ==
    hook.loaded =>
        /\ hook.last.nested =>
              /\ hook.last.passed = hook.last.given
              /\ hook.last.guard
        /\ \A t \in Threads : hook.depth[t] > 0 => hook.IN_HOOK[t]

\* a nested call has passed on, unmodified, a path that a top-level call
\* would have redirected, and the outer call still holds the guard
C14_Witness ==
    /\ hook.loaded
    /\ hook.cfg.enabled
    /\ hook.last.nested
    /\ hook.last.passed = hook.last.given
    /\ \E i \in DOMAIN hook.last.given :
          Actual(hook.cfg, hook.cwd, hook.last.given[i]) # hook.last.given[i]
    /\ hook.IN_HOOK[hook.last.thread]
    /\ hook.depth[hook.last.thread] = 1

\* the path an entry point with the single path argument would pass on
Alone(path) == Actual(hook.cfg, hook.cwd, path)

OrigA == PathStr(TRUE, <<Orig, NameA>>)
OrigB == PathStr(TRUE, <<Orig, NameB>>)
WtA == PathStr(TRUE, <<Wt, NameA>>)
WtB == PathStr(TRUE, <<Wt, NameB>>)
GitA == PathStr(TRUE, <<Orig, DotGit, NameA>>)
GitB == PathStr(TRUE, <<Orig, DotGit, NameB>>)
OutsideA == PathStr(TRUE, <<NameA>>)

\* C15: a two-path entry point called from outside every hook decides each
\* path argument by that argument alone: each path is passed on as a
\* single-path call would pass it; with from /orig and to /wt,
\* (/orig/a, /orig/b) becomes (/wt/a, /wt/b), (/orig/.git/a, /orig/.git/b)
\* is passed unchanged, and of one path inside from and one outside only
\* the inside one is rewritten.
C15_EachPathAlone ==
    TopLevel(2) =>
        LET given == hook.last.given
            passed == hook.last.passed
        IN  /\ \A i \in 1..2 : passed[i] = Alone(given[i])
            /\ given = <<OrigA, OrigB>> => passed = <<WtA, WtB>>
            /\ given = <<GitA, GitB>> => passed = given
            /\ given = <<OrigA, OutsideA>> => passed = <<WtA, OutsideA>>
            /\ given = <<OutsideA, OrigB>> => passed = <<OutsideA, WtB>>

\* a two-path call has rewritten its second path and left its first, which
\* lies outside from, as given
C15_Witness ==
    /\ TopLevel(2)
    /\ hook.last.given = <<OutsideA, OrigB>>
    /\ hook.last.passed = <<OutsideA, WtB>>

\* C16: a save called while the repository state is not clean returns
\* success and leaves the repository as it was: every ref and HEAD, the
\* commits, the index.
C16_NotCleanNoWork ==
    (ret.calls >= 1 /\ pre.state # "Clean")
        => /\ ret.result = "ok"
           /\ repo.refs = pre.refs
           /\ repo.HEAD = pre.HEAD
           /\ repo.commits = pre.commits
           /\ repo.index = pre.index

\* save returned at once from a rebase with unsaved changes in the
\* working tree
C16_Witness ==
    /\ ret.calls >= 1
    /\ pre.state = "Rebase"
    /\ ret.result = "ok"
    /\ ret.step = 1
    /\ ~is_saved(pre, TrackingBranch)
    /\ repo = pre

\* C17: a save called on a clean repository whose HEAD is unborn returns
\* success, not an error, and creates or moves no ref.
C17_UnbornSucceeds ==
    (ret.calls >= 1 /\ pre.state = "Clean" /\ ~head(pre).ok)
        => /\ ret.result = "ok"
           /\ repo.refs = pre.refs
           /\ repo.HEAD = pre.HEAD

\* C18: after an add answered with success for a path that had an entry,
\* the path has the same entry, with its watcher and worker, and the
\* config list of the entry is the earlier list with the new config added.
C18_AppendKeepsEntry ==
    (resp.req = "add" /\ resp.result = "success" /\ resp.entry # 0)
        => /\ entry = resp.entry
           /\ workers[entry].connected
           /\ Len(workers[entry].confs) = Len(resp.list[1]) + 1
           /\ SubSeq(workers[entry].confs, 1, Len(resp.list[1])) = resp.list[1]

\* C20: no handler writes the watch list while a debounce worker is
\* executing save.
C20_NoWriteDuringSave ==
    ~(resp.wrote /\ resp.saving)

\* C19: when an add, a remove or a kill is answered with success, the
\* handler has written watch.json and the file holds the watch list as it
\* stood when the handler wrote it.
C19_FileIsWatchList ==
    (resp.req \in {"add", "remove", "kill"} /\ resp.result = "success")
        => /\ resp.wrote
           /\ resp.content = to_string(resp.snapshot)

\* C21: once a kill request has been answered, the daemon eventually
\* leaves axum::serve and exits.
C21_KillStops ==
    (resp.req = "kill" /\ resp.result = "success") ~> (server.pc = "exit")

\* read_watch_list has returned and no request has been handled since
Started == server.pc # "read" /\ resp = NoResponse

\* the watch lists a file can record
RecordedLists == {<<>>} \cup {<<confs>> : confs \in ConfigLists}

\* the file that read_watch_list met was readable and recorded a watch list
Recorded ==
    /\ server.readable
    /\ \E data \in RecordedLists : server.text = to_string(data)

\* the watch list the file recorded, without the entry whose watcher could
\* not be constructed
Replayed ==
    IF ~server.constructed THEN <<>>
    ELSE CHOOSE data \in RecordedLists : server.text = to_string(data)

\* C22: the daemon starts with every file: with the paths of watch.json
\* whose watcher could be constructed, each with the configs the file
\* records, and with an empty watch list when the file cannot be read or
\* parsed.
C22_StartupNeverFails ==
    Started =>
        /\ server.pc = "serve"
        /\ WatchListFile(entry, workers) = IF Recorded THEN Replayed ELSE <<>>

\* C22, amended: the same, except that with a file that cannot be read or
\* parsed the daemon starts, with an empty watch list and the file of an
\* empty watch list written, only if that file can be written; otherwise
\* the start fails.
C22_StartupList ==
    Started =>
        /\ Recorded =>
              /\ server.pc = "serve"
              /\ WatchListFile(entry, workers) = Replayed
              /\ file = server.text
        /\ ~Recorded =>
              /\ WatchListFile(entry, workers) = <<>>
              /\ server.pc = "serve" => file = to_string(<<>>)

\* the daemon has started with the two configs the file records for the path
C22_Witness ==
    /\ Started
    /\ server.pc = "serve"
    /\ entry = 1
    /\ workers[entry].connected
    /\ workers[entry].confs = <<Config(3), Config(30)>>

\* C23: when an add or a remove is answered with "failed", the watch list
\* is what it was before the request.
C23_FailedKeepsList ==
    (resp.req \in {"add", "remove"} /\ resp.result = "failed")
        => /\ entry = resp.entry
           /\ WatchListFile(entry, workers) = resp.list

\* C24: in a process loaded without REDIRECT_FROM or without REDIRECT_TO
\* every intercepted call hands the caller's path arguments to the original
\* function as given, and the configuration read by init never changes.
C24_AbsentDisables ==
    /\ [](hook.loaded /\ hook.absent => hook.last.passed = hook.last.given)
    /\ [][hook.loaded => hook'.cfg = hook.cfg]_vars

\* without REDIRECT_FROM or REDIRECT_TO, a top-level call has passed on
\* /orig/a as given
C24_Witness ==
    /\ hook.loaded
    /\ hook.absent
    /\ hook.last.thread # "none"
    /\ ~hook.last.nested
    /\ hook.last.given = <<OrigA>>
    /\ hook.last.passed = <<OrigA>>

\* ---------------------------------------------------------------------
\* The run subcommand: do_worktree
\* ---------------------------------------------------------------------

\* the longest repository root, in components
MaxRootDepth == 2

\* the names in a repository root and the branch names
NameAB == <<"a", "-", "b">>
RootNames == {NameA, NameB, NameAB, Latin1}
BranchNames == {<<"x">>, <<"f", "/", "x">>, <<"f", "-", "x">>}
RepoRoots == SeqsUpTo(RootNames, MaxRootDepth) \ {<<>>}

\* OsStr::to_string_lossy: a byte that is not UTF-8 becomes U+FFFD
to_string_lossy(name) ==
    [i \in 1..Len(name) |-> IF <<name[i]>> = Latin1 THEN "\\uFFFD" ELSE name[i]]

\* [String]::join("-")
RECURSIVE JoinDash(_)
JoinDash(names) ==
    IF names = <<>> THEN <<>>
    ELSE IF Len(names) = 1 THEN names[1]
    ELSE names[1] \o <<"-">> \o JoinDash(Tail(names))

\* str::replace("/", "-")
replace(str) == [i \in 1..Len(str) |-> IF str[i] = "/" THEN "-" ELSE str[i]]

\* daemon::cache_dir() and WORKTREES_DIR_NAME
CacheDir == <<"c">>
WorktreesDirName == <<"w">>

\* worktree_path: <cache>/worktrees/<the Normal components of the
\* repository root, joined by "-">/<the branch, "/" replaced by "-">
worktree_path(repo_root, branch) ==
    LET replaced ==
            JoinDash([i \in 1..Len(repo_root) |-> to_string_lossy(repo_root[i])])
    IN  PathStr(TRUE, <<CacheDir, WorktreesDirName, replaced, replace(branch)>>)

\* the variables that the run subcommand is specified to set for its
\* child (<<>> and "unset": the variable is absent)
NoEnvironment ==
    [preload |-> <<>>, from |-> <<>>, to |-> <<>>, skip |-> "unset",
     git_dir |-> <<>>, git_work_tree |-> <<>>]

\* the environment that the driver was started with: of the variables
\* above, it may hold the ones that configure the preload library
Environ(env) ==
    [NoEnvironment EXCEPT !.from = env.from, !.to = env.to, !.skip = env.skip]

\* no child has been forked
NoChild == [pc |-> "none", env |-> NoEnvironment, code |-> 0]

\* the exit codes of the child
ExitCodes == {0, 1}

\* the order of do_worktree when setup comes after the fork
ThenForkFirst(pc) ==
    CASE pc = "fork" -> "waitpid"
      [] pc = "waitpid" -> "setup_worktree"
      [] pc = "setup_worktree" -> "add"
      [] pc = "add" -> "args"
      [] pc = "args" -> "remove"
      [] pc = "remove" -> "remove_worktree"
      [] OTHER -> "return"
\* the order of the statements of do_worktree
Then(pc) ==
    CASE pc = "setup_worktree" -> "add"
      [] pc = "add" -> "args"
      [] pc = "args" -> "fork"
      [] pc = "fork" -> "waitpid"
      [] pc = "waitpid" -> "remove"
      [] pc = "remove" -> "remove_worktree"
      [] OTHER -> "return"

\* do_worktree(args, branch, path) is called; the daemon serves with an
\* empty watch list
InitRun ==
    /\ InitWatched
    /\ now = 0
    /\ entry = 0
    /\ workers = <<>>
    /\ events = <<>>
    /\ log = <<>>
    /\ file = to_string(<<>>)
    /\ resp = NoResponse
    /\ api = <<>>
    /\ hook = NoHook
    /\ server = Serving
    /\ \E repo_root \in RepoRoots, branch \in BranchNames, env \in Environments :
          run = [pc |-> "setup_worktree", root |-> repo_root,
                 branch |-> branch, path |-> <<>>, worktree |-> FALSE,
                 environ |-> Environ(env), child |-> NoChild,
                 result |-> "none", code |-> 0]

\* the statement at pc is done
Goes(pc) == [run EXCEPT !.pc = Then(pc)]
\* the statement at pc fails and "?" returns the error
Fails == [run EXCEPT !.pc = "return", !.result = "err"]

\* setup_worktree: worktree_path, create_dir_all of its parent,
\* GitRepo::new, add_worktree
SetupOutcomes == {"ok", "worktree_path", "create_dir_all", "new", "add_worktree"}
setup_worktree(out) ==
    /\ run.pc = "setup_worktree"
    /\ run' = IF out = "ok"
              THEN [Goes("setup_worktree") EXCEPT
                       !.path = worktree_path(run.root, run.branch),
                       !.worktree = TRUE]
              ELSE Fails
    /\ UNCHANGED <<gitvars, now, entry, workers, events, log, apivars, hookvars,
                   servervars>>

\* change_watch_list: the request is answered by the daemon's handler,
\* and a "failed" answer is an error
Answered(pc) == IF resp'.result = "success" THEN Goes(pc) ELSE Fails

\* change_watch_list(Add {path: worktree_path, config})
AddWorktree(ok, out) ==
    /\ run.pc = "add"
    /\ server.pc = "serve"
    /\ Add(Config(DefaultDelay), ok, out)
    /\ run' = Answered("add")

\* change_watch_list fails before any answer: no client, or send fails
SendFails ==
    /\ run.pc \in {"add", "remove"}
    /\ run' = Fails
    /\ UNCHANGED <<gitvars, now, entry, workers, events, log, apivars, hookvars,
                   servervars>>

\* the command and its arguments as C strings: fails when there is no
\* command, or a NUL in one of them
Args(ok) ==
    /\ run.pc = "args"
    /\ run' = IF ok THEN Goes("args") ELSE Fails
    /\ UNCHANGED <<gitvars, now, entry, workers, events, log, apivars, hookvars,
                   servervars>>

\* fork: the child is a copy of the process
fork(ok) ==
    /\ run.pc = "fork"
    /\ run' = IF ok
              THEN [Goes("fork") EXCEPT !.child.pc = "forked"]
              ELSE Fails
    /\ UNCHANGED <<gitvars, now, entry, workers, events, log, apivars, hookvars,
                   servervars>>

\* the child: set_current_dir, setpgid, execvp, which passes the
\* environment of the process; after a failure the child returns the
\* error from do_worktree and exits
ChildOutcomes == {"ok", "set_current_dir", "setpgid", "execvp"}
execvp(out) ==
    /\ run.child.pc = "forked"
    /\ run' = IF out = "ok"
              THEN [run EXCEPT !.child.pc = "exec", !.child.env = run.environ]
              ELSE [run EXCEPT !.child.pc = "exited", !.child.code = 1]
    /\ UNCHANGED <<gitvars, now, entry, workers, events, log, apivars, hookvars,
                   servervars>>

\* the command exits
Exit(code) ==
    /\ run.child.pc = "exec"
    /\ run' = [run EXCEPT !.child.pc = "exited", !.child.code = code]
    /\ UNCHANGED <<gitvars, now, entry, workers, events, log, apivars, hookvars,
                   servervars>>

\* the parent: waitpid until the child has exited or was killed
waitpid ==
    /\ run.pc = "waitpid"
    /\ run.child.pc = "exited"
    /\ run' = [Goes("waitpid") EXCEPT !.code = run.child.code]
    /\ UNCHANGED <<gitvars, now, entry, workers, events, log, apivars, hookvars,
                   servervars>>

\* change_watch_list(Remove {path: worktree_path})
RemoveWorktree(out) ==
    /\ run.pc = "remove"
    /\ server.pc = "serve"
    /\ Remove(out)
    /\ run' = Answered("remove")

\* GitRepo::remove_worktree prunes the directory of the worktree and its
\* administrative metadata
PruneOutcomes == {"ok", "new", "prune"}
remove_worktree(out) ==
    /\ run.pc = "remove_worktree"
    /\ run' = IF out = "ok"
              THEN [Goes("remove_worktree") EXCEPT
                       !.worktree = FALSE, !.result = "ok"]
              ELSE Fails
    /\ UNCHANGED <<gitvars, now, entry, workers, events, log, apivars, hookvars,
                   servervars>>

NextRun ==
    \/ \E out \in SetupOutcomes : setup_worktree(out)
    \/ \E ok \in BOOLEAN : \E out \in WriteOutcomes : AddWorktree(ok, out)
    \/ SendFails
    \/ \E ok \in BOOLEAN : Args(ok)
    \/ \E ok \in BOOLEAN : fork(ok)
    \/ \E out \in ChildOutcomes : execvp(out)
    \/ \E code \in ExitCodes : Exit(code)
    \/ waitpid
    \/ \E out \in WriteOutcomes : RemoveWorktree(out)
    \/ \E out \in PruneOutcomes : remove_worktree(out)

SpecRun == InitRun /\ [][NextRun]_vars

\* ---------------------------------------------------------------------
\* Claims about the run subcommand
\* ---------------------------------------------------------------------

\* the path of the redirect library
RedirectLibrary == <<"/", "l">>
\* the child is executing the command
Executing == run.pc # "none" /\ run.child.pc = "exec"

\* C25: the child of the run subcommand reaches execvp with the preload
\* variable set to the path of the redirect library, REDIRECT_FROM to the
\* path of the original repository, REDIRECT_TO to the path of the worktree,
\* REDIRECT_SKIP_GITIGNORE to 1, and GIT_DIR and GIT_WORK_TREE set for the
\* worktree.
C25_ChildEnvironment ==
    Executing =>
        /\ run.child.env.preload = RedirectLibrary
        /\ run.child.env.from = PathStr(TRUE, run.root)
        /\ run.child.env.to = run.path
        /\ run.child.env.skip = "1"
        /\ run.child.env.git_dir # <<>>
        /\ run.child.env.git_work_tree = run.path

\* the child exists and has not exited
ChildAlive == run.pc # "none" /\ run.child.pc \in {"forked", "exec"}

\* C26: the run subcommand creates the worktree, then registers its path in
\* the watch list, then forks the child; the path is taken out of the watch
\* list only after the child has exited, and the worktree is pruned only
\* after that. The path is watched as long as the child lives, and after a
\* successful return it is neither watched nor a worktree.
C26_RunOrder ==
    /\ [](/\ entry # 0 => run.worktree
          /\ ChildAlive => run.worktree /\ entry # 0
          /\ run.result = "ok" =>
                run.child.pc = "exited" /\ entry = 0 /\ ~run.worktree)
    /\ [][/\ run.child.pc = "none" /\ run'.child.pc # "none" =>
                run.worktree /\ entry # 0
          /\ entry # 0 /\ entry' = 0 => run.child.pc = "exited"
          /\ run.worktree /\ ~run'.worktree =>
                run.child.pc = "exited" /\ entry = 0]_vars

\* the command has run in the worktree and exited with 0, the path was
\* taken out of the watch list, the worktree was pruned, and do_worktree
\* has returned the exit code
C26_Witness ==
    /\ run.pc = "return"
    /\ run.result = "ok"
    /\ run.code = 0
    /\ run.child.env = run.environ
    /\ resp.req = "remove"
    /\ resp.result = "success"
    /\ resp.entry # 0
    /\ entry = 0
    /\ ~run.worktree

\* C27: the worktree path computation is injective: no other pair of a
\* repository root and a branch name has the worktree path that
\* setup_worktree computed for the pair of this run.
C27_PathInjective ==
    run.pc # "none" /\ run.path # <<>> =>
        \A repo_root \in RepoRoots, branch \in BranchNames :
            worktree_path(repo_root, branch) = run.path =>
                repo_root = run.root /\ branch = run.branch

\* ---------------------------------------------------------------------
\* Claims about the commits of save
\* ---------------------------------------------------------------------

\* the commits that the last call of save created with merge_message
MergeCommits ==
    {c \in (Len(pre.commits) + 1)..Len(repo.commits) :
        repo.commits[c].message = "merge_message"}
\* the tip of the tracking branch after step 4 of the last call of save
TrackingTip ==
    IF pre.refs[TrackingBranch] # 0 THEN pre.refs[TrackingBranch]
    ELSE head(pre).oid
\* the tip of the branch that was HEAD before the last call of save
PriorTip == pre.refs[pre.HEAD.name]
\* the last call of save went through its auto-merge step
Merged == ret.calls >= 1 /\ ret.step >= 6
\* the prior HEAD was a branch whose tree is the tree of the tracking branch
SameTrees ==
    /\ pre.HEAD.kind = "Branch"
    /\ TreeOf(pre, TrackingTip) = TreeOf(pre, PriorTip)

TipAtCommit ==
    IF MergeCommits # {} THEN CHOOSE c \in MergeCommits : TRUE
    ELSE TrackingTip

\* C29: the tracking branch only moves forward: save creates a missing
\* tracking branch at HEAD's commit, the snapshot commit of a successful save
\* has the tip the tracking branch had at the time of committing as its only
\* parent, the previous tip (or the HEAD commit the branch was created from)
\* is an ancestor of the new tip, and an existing tracking branch is never
\* reset to HEAD.
C29_TrackingForward ==
    ret.calls >= 1 =>
        /\ pre.refs[TrackingBranch] # 0 =>
              /\ repo.refs[TrackingBranch] # 0
              /\ pre.refs[TrackingBranch] \in
                    Ancestors(repo.commits, repo.refs[TrackingBranch])
        /\ pre.refs[TrackingBranch] = 0 /\ repo.refs[TrackingBranch] # 0 =>
              head(pre).oid \in
                  Ancestors(repo.commits, repo.refs[TrackingBranch])
        /\ Committed =>
              /\ repo.refs[TrackingBranch] = Len(repo.commits)
              /\ repo.refs[TrackingBranch] > Len(pre.commits)
              /\ repo.commits[repo.refs[TrackingBranch]].message =
                    "commit_message"
              /\ repo.commits[repo.refs[TrackingBranch]].parents =
                    <<TipAtCommit>>
        /\ SubSeq(repo.commits, 1, Len(pre.commits)) = pre.commits

\* save committed on a tracking branch that existed at another commit than
\* HEAD's: the snapshot's parent is that commit, not HEAD's
C29_Witness ==
    /\ Committed
    /\ pre.refs[TrackingBranch] # 0
    /\ pre.refs[TrackingBranch] # head(pre).oid
    /\ pre.refs[TrackingBranch] \notin Ancestors(pre.commits, head(pre).oid)
    /\ MergeCommits = {}
    /\ repo.commits[repo.refs[TrackingBranch]].parents =
          <<pre.refs[TrackingBranch]>>

\* ---------------------------------------------------------------------
\* Claims about the end of the debounce worker
\* ---------------------------------------------------------------------

\* the channel of worker w is closed
Closed(w) == w \in DOMAIN workers /\ ~workers[w].connected

\* worker w has returned from debounce_worker
Returned(w) == w \in DOMAIN workers /\ workers[w].pc = "exited"

\* C30: when the event channel is closed the debounce worker terminates,
\* whether it is idle or armed, and from the moment it is idle or armed on
\* a closed channel it does not invoke save again: armed at tier i, it
\* terminates without the save of tier i or of a later tier.
C30_ClosedTerminates ==
    /\ \A w \in 1..MaxWorkers : Closed(w) ~> Returned(w)
    /\ [][\A w \in DOMAIN workers :
            Closed(w) /\ workers[w].pc # "save" => workers'[w].pc # "save"]_vars

\* a worker that was armed at tier 1 has returned on the closed channel
\* without having invoked save
C30_Witness ==
    \E w \in DOMAIN workers :
        /\ Closed(w)
        /\ Returned(w)
        /\ workers[w].tier = 1
        /\ workers[w].call = 0
        /\ \A i \in DOMAIN log : log[i].w # w

\* ---------------------------------------------------------------------
\* Claims about what save leaves behind
\* ---------------------------------------------------------------------

\* C36: when save returns an error after it has retargeted HEAD (the
\* auto-merge, the staging or the commit has failed), the index holds the
\* entries it held before the call.
C36_IndexKeptOnError ==
    (ret.calls >= 1 /\ ret.result = "err" /\ ret.step \in 5..7)
        => repo.index = pre.index

\* C37: save moves no branch other than the tracking branch, on success and
\* on failure, the checked-out branch included; when the checked-out branch
\* is the tracking branch, a save that commits advances it.
C37_OtherRefsKept ==
    ret.calls >= 1 =>
        /\ \A b \in Branches \ {TrackingBranch} : repo.refs[b] = pre.refs[b]
        /\ Len(repo.commits) > Len(pre.commits) =>
              repo.refs[TrackingBranch] = Len(repo.commits)
        /\ Committed /\ pre.HEAD = Branch(TrackingBranch) =>
              /\ repo.refs[TrackingBranch] > Len(pre.commits)
              /\ repo.HEAD = Branch(TrackingBranch)

\* save has made an auto-merge commit and a snapshot commit on the tracking
\* branch while main was checked out, and main is where it was
C37_Witness ==
    /\ Committed
    /\ pre.HEAD = Branch("main")
    /\ MergeCommits # {}
    /\ repo.refs["main"] = pre.refs["main"]
    /\ repo.refs[TrackingBranch] > Len(pre.commits)

\* C38: on every return of do_worktree after the worktree was created, the
\* error returns included, the worktree path is not in the watch list and
\* the worktree has been pruned.
C38_CleanupOnEveryReturn ==
    (run.pc = "return" /\ run.path # <<>>) => entry = 0 /\ ~run.worktree

\* ---------------------------------------------------------------------
\* Claims about the recursion guard and the normalisation of paths
\* ---------------------------------------------------------------------

\* C34: the recursion guard of a thread is set exactly while an outermost
\* hooked call is in progress on that thread; a call made while no hooked
\* call is in progress on its thread is redirected, whatever is in progress
\* on the other threads; and a step of one thread leaves the guards of the
\* other threads as they are.
C34_GuardPerThread ==
    /\ [](hook.loaded =>
            /\ \A t \in Threads : hook.IN_HOOK[t] <=> hook.depth[t] > 0
            /\ hook.last.thread # "none" /\ ~hook.last.nested =>
                  hook.last.passed =
                      [i \in DOMAIN hook.last.given |->
                          Actual(hook.cfg, hook.cwd, hook.last.given[i])])
    /\ [][hook.loaded =>
            \A t \in Threads :
                hook'.IN_HOOK[t] # hook.IN_HOOK[t] =>
                    \A u \in Threads \ {t} :
                        hook'.IN_HOOK[u] = hook.IN_HOOK[u]]_vars

\* thread t1 has made a call that was redirected while a hooked call was in
\* progress on thread t2, and its guard is cleared again
C34_Witness ==
    /\ hook.loaded
    /\ hook.last.thread = "t1"
    /\ ~hook.last.nested
    /\ hook.last.guard
    /\ hook.last.passed # hook.last.given
    /\ hook.IN_HOOK["t2"]
    /\ ~hook.IN_HOOK["t1"]

TopLevelAt == hook.loaded /\ hook.at.thread # "none" /\ ~hook.at.nested

\* C33: an *at entry point redirects an absolute path, and a relative path
\* with AT_FDCWD, by the normal rule; a relative path with another descriptor
\* by the normal rule applied to the directory of the descriptor joined with
\* the path, and not at all if that directory cannot be recovered. The
\* descriptor is handed on unchanged and a redirected path is absolute.
C33_AtRule ==
    TopLevelAt =>
        LET path == hook.at.given
            dir == read_link(hook.at.dirfd)
            full == dir.str \o <<"/">> \o path
        IN  /\ hook.at.fd = hook.at.dirfd
            /\ is_absolute(path) \/ hook.at.dirfd = AT_FDCWD =>
                  hook.at.passed = Alone(path)
            /\ ~is_absolute(path) /\ hook.at.dirfd # AT_FDCWD /\ dir.some =>
                  hook.at.passed =
                      IF Alone(full) # full THEN Alone(full) ELSE path
            /\ ~is_absolute(path) /\ hook.at.dirfd # AT_FDCWD /\ ~dir.some =>
                  hook.at.passed = path
            /\ hook.at.passed # path => is_absolute(hook.at.passed)

\* openat(3, "a", ..) with descriptor 3 open on from, called from another
\* current directory, was handed on as openat(3, "<to>/a", ..)
C33_Witness ==
    /\ TopLevelAt
    /\ hook.cwd = PathStr(TRUE, <<>>)
    /\ hook.at.dirfd = 3
    /\ hook.at.fd = 3
    /\ hook.at.given = NameA
    /\ hook.at.passed = WtA

\* ---------------------------------------------------------------------
\* Claims about the config list of a path
\* ---------------------------------------------------------------------

\* the config list of the watched path
Configs == workers[entry].confs

\* C31: after any sequence of add requests for a path, the config list of
\* the path is in strictly increasing order of delay: every difference
\* configs[i+1].delay - configs[i].delay that its worker computes in
\* unsigned arithmetic has a minuend greater than its subtrahend, so it is
\* positive and does not underflow.
C31_DelaysAscending ==
    (server.pc = "serve" /\ entry # 0) =>
        \A i \in 1..(Len(Configs) - 1) :
            /\ Configs[i + 1].delay > Configs[i].delay
            /\ relative_delays(Configs)[i + 1] > 0
            /\ relative_delays(Configs)[i + 1] < Configs[i + 1].delay

\* an add request for a path whose list held two configs has succeeded,
\* and the path has a list again
C31_Witness ==
    /\ server.pc = "serve"
    /\ entry # 0
    /\ resp.req = "add"
    /\ resp.result = "success"
    /\ resp.list # <<>>
    /\ Len(resp.list[1]) = 2
    /\ Len(Configs) >= 1

\* the daemon has loaded a watch list with one path from watch.json, whose
\* list may have several tiers, and serves
SpecLock == InitDebounce /\ [][NextDaemon]_vars

\* worker w is armed or saving
InCycle(w) == workers[w].pc \in {"recv_timeout", "save"}

\* C35: the debounce worker takes the lock of the config list when the first
\* event of a cycle arrives and holds it until the last tier of the cycle
\* has been saved or the worker returns: it holds the lock exactly while it
\* is armed or saving and not while it is idle, and while it holds the lock
\* the list, and with it the tier schedule of the cycle, does not change.
C35_LockForTheCycle ==
    /\ [](\A w \in DOMAIN workers : workers[w].lock <=> InCycle(w))
    /\ [][\A w \in DOMAIN workers :
            /\ workers[w].lock =>
                  workers'[w].confs = workers[w].confs
            /\ workers[w].lock /\ ~workers'[w].lock =>
                  \/ workers'[w].pc = "exited"
                  \/ /\ workers[w].pc = "save"
                     /\ workers[w].tier = Len(workers[w].confs)
            /\ ~workers[w].lock /\ workers'[w].lock =>
                  workers[w].pc = "recv" /\ workers'[w].tier = 1]_vars

\* a worker holds the lock, armed for a later tier of its cycle after the
\* save of the tier before, and an add request for its path has been
\* answered with success: its list is the one it read at the first event
C35_Witness ==
    \E w \in DOMAIN workers :
        /\ workers[w].lock
        /\ workers[w].pc = "recv_timeout"
        /\ workers[w].tier > 1
        /\ resp.req = "add"
        /\ resp.result = "success"
        /\ w # entry

====
